---- MODULE Spec2Model ----
(***************************************************************************)
(* nodekeeper: the blockchain subscription engine                          *)
(* (src/network/subscription.rs) and the validator election scheduler      *)
(* with its retry envelope (src/cli/validator.rs).                         *)
(*                                                                         *)
(* Spec         the subscription engine: senders, subscribers, the walker  *)
(*              task and the node they talk to.                            *)
(* SpecSched    the election scheduler: the retry envelope, the passes of  *)
(*              try_validate, the two elect routines with their wallet     *)
(*              calls, the signal task and the select! of Cmd::run.        *)
(* SpecBackoff  the retry envelope alone, over every retry option: the     *)
(*              normalisation of the options and the interval update.      *)
(* SpecTimeline one pass of try_validate from Timeline::compute on, over   *)
(*              every timing and offset: the phase, the dispatch, the      *)
(*              sleep at the top of the next pass.                         *)
(* SpecWalk     the walker task and subscribers alone, with a node whose   *)
(*              shardchains grow, split and merge: the cached block and    *)
(*              its shards edge.                                           *)
(* SpecSync     the start of a pass, over every max_time_diff and every    *)
(*              answer of the node: wait_until_synced.                     *)
(***************************************************************************)
EXTENDS Integers, Sequences, FiniteSets, TLC

(***************************************************************************)
(* Bounds of the model.                                                    *)
(***************************************************************************)
NumSenders == 2
NumHashes == 3
NumAddrs == 1
NumChannels == 1
MaxTime == 2
MaxAttempts == 2
MaxTries == 3
UintBits == 5
MantBits == 3
MaxMult2 == 5
U32Bits == 4
MaxBefore == 5
MaxOffset == 2
MaxDiff == 6
MaxShardSeqNo == 3
MaxBlockTxs == 2
MaxReceived == 6

(***************************************************************************)
(* Program constants.                                                      *)
(***************************************************************************)
MASTERCHAIN_ID == -1
BASE_WORKCHAIN_ID == 0
UPDATE_ATTEMPTS == 4
PASS_SLEEP_FLOOR == 10
MIN_TIME_DIFF == 5

Senders == 1..NumSenders
Hashes == 1..NumHashes
Addrs == 1..NumAddrs
ChanIds == 1..NumChannels
Times == 0..MaxTime
Workchains == {MASTERCHAIN_ID, BASE_WORKCHAIN_ID}

NoSender == 0
NoMsg == 0

VARIABLES
    subscriptions,       \* [Workchains -> [Addrs -> AccountSubscription]]: mc_subscriptions, sc_subscriptions
    subscription_count,  \* AtomicUsize; a negative value n stands for the wrapped value 2^64 + n
    last_mc_block,       \* ArcSwapOption<StoredMcBlock>
    wpc,                 \* walker task: its position in walk_blocks / make_blocks_step
    signal,              \* walker: the Notified future on subscriptions_changed
    next_mc_block,       \* walker: the block fetched in the current step (with its shard blocks)
    spc,                 \* sender task: its position in send_message_with_retires / send_message
    smsg,                \* sender: the message built by f, with expire_at
    loop_works,          \* sender: the Notified future on subscription_loop_step
    reply,               \* sender: what its oneshot channel has been sent, in order
    sresult,             \* sender: what the last send_message returned
    attempts,            \* sender: messages built so far
    node_head,           \* node: its last masterchain block
    chan_next,           \* subscribers: channels created so far
    chan_closed,         \* subscribers: channels whose receiver was dropped
    chan_rx,             \* subscribers: transactions received on each channel, in order
    h_pulsed,            \* history: a loop-step pulse happened since the sender's insertion
    h_sent,              \* history: how the sender's transmit was ordered to such a pulse
    epc,                 \* scheduler: its position in validation_fut / try_validate / elect
    guard,               \* validation_mutex: who holds the shutdown guard
    call,                \* scheduler: the wallet call in flight
    update_attempts,     \* update_depool: attempts left
    tries,               \* retry envelope: calls of try_validate so far
    last_error,          \* retry envelope: the error of the last failed attempt
    sigpc,               \* signal task: its position
    cancelled,           \* cancellation_token
    run_result,          \* Cmd::run: running, or what it returned
    abandoned,           \* history: the wallet call in flight when the scheduler was cancelled
    min_retry_interval,  \* Cmd option, u64 seconds
    max_retry_interval,  \* Cmd option, u64 seconds
    retry_interval_multiplier,  \* Cmd option, f64: twice its value, or Infinity
    interval,            \* retry envelope: the current retry interval, u64 seconds
    elections_start_offset,  \* Cmd option, u32 seconds
    elections_end_offset,    \* Cmd option, u32 seconds
    max_time_diff,       \* Cmd option, u16 seconds
    overflow_checks,     \* the build: whether an integer overflow panics (or wraps)
    mode,                \* try_validate: the validation mode the config file holds
    stats,               \* wait_until_synced: the node's last answer to get_stats
    timings,             \* try_validate: elector timings, validator set and target block time
    timeline,            \* try_validate: what Timeline::compute returned
    elector_data,        \* try_validate: the snapshot of the elector's data
    target_round,        \* DePool::elect: what update_depool returned
    t_interval,          \* try_validate: its local `interval`, u32 seconds
    h_slept,             \* history: the duration of the last sleep at the top of a pass
    outcome,             \* try_validate: what the timeout around the elect routine returned
    timeout,             \* try_validate: the deadline of the elect routine and the seconds run
    participants,        \* the elector: who it lists as a participant of the current election
    h_made               \* history: the wallet calls the current elect routine has started

vars == <<subscriptions, subscription_count, last_mc_block, wpc, signal, next_mc_block,
          spc, smsg, loop_works, reply, sresult, attempts, node_head,
          chan_next, chan_closed, chan_rx, h_pulsed, h_sent,
          epc, guard, call, update_attempts, tries, last_error, sigpc, cancelled,
          run_result, abandoned, min_retry_interval, max_retry_interval,
          retry_interval_multiplier, interval,
          elections_start_offset, elections_end_offset, max_time_diff, overflow_checks,
          mode, stats, timings, timeline, elector_data, target_round,
          t_interval, h_slept, outcome, timeout, participants, h_made>>

engineVars == <<subscriptions, subscription_count, last_mc_block, wpc, signal, next_mc_block,
                spc, smsg, loop_works, reply, sresult, attempts, node_head,
                chan_next, chan_closed, chan_rx, h_pulsed, h_sent>>

configVars == <<min_retry_interval, max_retry_interval, retry_interval_multiplier>>

optVars == <<elections_start_offset, elections_end_offset, max_time_diff, overflow_checks>>

passVars == <<mode, stats, timings, timeline, elector_data, target_round>>

sleepVars == <<t_interval, h_slept, outcome>>

schedVars == <<epc, guard, call, update_attempts, tries, last_error, sigpc, cancelled,
               run_result, abandoned, min_retry_interval, max_retry_interval,
               retry_interval_multiplier, interval, optVars, passVars, sleepVars, timeout,
               participants, h_made>>

(***************************************************************************)
(* Data                                                                    *)
(***************************************************************************)
Range(f) == {f[i] : i \in DOMAIN f}

\* An account entry that is not in the map
Vacant == [present |-> FALSE, pending_messages |-> {}, transactions |-> <<>>]

\* AccountSubscription::default()
DefaultSubscription == [present |-> TRUE, pending_messages |-> {}, transactions |-> <<>>]

\* AccountSubscription::is_empty
is_empty(subscription) ==
    subscription.pending_messages = {} /\ subscription.transactions = <<>>

NoTx == [workchain |-> 0, account |-> 0, in_msg |-> NoMsg, seq_no |-> 0]
NoneValue == [some |-> FALSE, tx |-> NoTx]
SomeValue(tx) == [some |-> TRUE, tx |-> tx]

NoBlock == [seq_no |-> 0, gen_utime |-> 0]

\* ton_block::ShardIdent: the base workchain as one shard, or split in two
ShardIdents == {"root", "left", "right"}

\* ton_block::BlockIdExt of a shard block
BlockIdExt(shard, seq_no) == [shard_id |-> shard, seq_no |-> seq_no]

\* the top shard blocks a masterchain block references: the whole shard
WholeShard(n) == [sh \in {"root"} |-> BlockIdExt(sh, n)]

\* the top shard blocks a masterchain block references: the two halves
SplitShards(l, r) ==
    [sh \in {"left", "right"} |-> BlockIdExt(sh, IF sh = "left" THEN l ELSE r)]

\* BlockStuff::shard_blocks: the referenced top shard blocks by shard
shard_blocks(data) == data.shards

\* BlockStuff::shard_blocks_seq_no: their sequence numbers by shard
shard_blocks_seq_no(data) ==
    [sh \in DOMAIN data.shards |-> data.shards[sh].seq_no]

\* the edge that leaves the right half out
edge_of_left(ids) == [sh \in DOMAIN ids \ {"right"} |-> ids[sh].seq_no]

\* lines 371-376: Edge(ids.into_iter().map(|(shard, id)| (shard, id.seq_no)).collect())
edge_of(ids) == [sh \in DOMAIN ids |-> ids[sh].seq_no]

\* StoredMcBlock { data, shards_edge }
StoredMcBlock(data, shards_edge) ==
    [seq_no |-> data.seq_no, gen_utime |-> data.gen_utime, shards |-> data.shards,
     shards_edge |-> shards_edge]

\* what the shardchains of the node can become when they grow, split or merge
ShardSuccessors(tops) ==
    IF DOMAIN tops = {"root"}
    THEN LET n == tops["root"].seq_no + 1
         IN IF n > MaxShardSeqNo THEN {} ELSE {WholeShard(n), SplitShards(n, n)}
    ELSE LET l == tops["left"].seq_no
             r == tops["right"].seq_no
             m == (IF l < r THEN r ELSE l) + 1
         IN {SplitShards(l + 1, r) : x \in {y \in {1} : l < MaxShardSeqNo}}
            \cup {SplitShards(l, r + 1) : x \in {y \in {1} : r < MaxShardSeqNo}}
            \cup {WholeShard(m) : x \in {y \in {1} : m <= MaxShardSeqNo}}
NoMessage == [workchain |-> 0, dst |-> 0, hash |-> NoMsg, expire_at |-> 0]

\* Subscription::has_subscriptions: the counter as a usize is positive
\* (a wrapped counter is a huge positive number)
has_subscriptions == subscription_count # 0

\* Notify::notified(): a future armed from its creation
Notified == "armed"

\* Notify::notify_waiters() as seen by one Notified future: every future that
\* exists is completed, polled or not; nothing is stored for later futures
notify_waiters(future) == IF future = "armed" THEN "notified" ELSE future

\* subscription_loop_step.notify_waiters(): the messages barrier
PulseLoopStep ==
    /\ loop_works' = [s \in Senders |-> notify_waiters(loop_works[s])]
    /\ h_pulsed' = [s \in Senders |-> TRUE]

\* oneshot::Sender::send / mpsc send: the value is queued on the channel
SendReply(rep, s, value) ==
    IF s = NoSender THEN rep ELSE [rep EXCEPT ![s] = Append(@, value)]

\* Mutant of DropPendingMessage: a record dropped without a Drop impl
DropPendingMessage_silent(rep, message) == rep

\* impl Drop for PendingMessage: a record that still owns its sender sends None
DropPendingMessage(rep, message) == SendReply(rep, message.tx, NoneValue)

RECURSIVE DropAll(_, _)
DropAll(rep, messages) ==
    IF messages = {} THEN rep
    ELSE LET m == CHOOSE m \in messages : TRUE
         IN DropAll(DropPendingMessage(rep, m), messages \ {m})


(***************************************************************************)
(* Blocks as the walker reads them.  A block is [Addrs -> Seq(transaction)]: *)
(* its account blocks in key order, each with its transactions in order.   *)
(***************************************************************************)
EmptyBlock == [a \in Addrs |-> <<>>]
NoNext == [seq_no |-> 0, gen_utime |-> 0, shards |-> <<>>, shard_blocks |-> <<>>,
           task_ends |-> {}, task_ids |-> <<>>, mc_block |-> EmptyBlock]

RECURSIVE SortedSeq(_)
SortedSeq(S) ==
    IF S = {} THEN <<>>
    ELSE LET x == CHOOSE x \in S : \A y \in S : x <= y
         IN <<x>> \o SortedSeq(S \ {x})

\* The block of workchain wc with sequence number seq_no in which the node executed
\* the external messages `exec`
BlockOf(wc, seq_no, exec) ==
    [a \in Addrs |->
        LET hs == SortedSeq({m.hash : m \in {x \in exec : x.workchain = wc /\ x.dst = a}})
        IN [i \in 1..Len(hs) |->
               [workchain |-> wc, account |-> a, in_msg |-> hs[i], seq_no |-> seq_no]]]

(***************************************************************************)
(* The shard blocks of the node, and the tasks of make_blocks_step that    *)
(* collect the shard blocks between two masterchain blocks                 *)
(***************************************************************************)
NoId == BlockIdExt("none", 0)

\* BlockStuff of a shard block with its brief info: gen_utime, prev1, prev2
ShardBlock(id, gen_utime, prev1, prev2, block) ==
    [id |-> id, gen_utime |-> gen_utime, prev1 |-> prev1, prev2 |-> prev2, block |-> block]

\* the half of the base workchain that holds the account once it is split
shard_of(address) == IF address % 2 = 1 THEN "left" ELSE "right"

\* the transactions of a new block of shard sh: MaxBlockTxs of each account it
\* holds, in the order of their logical times
TxsOf(sh, seq_no) ==
    [a \in Addrs |->
        IF sh = "root" \/ sh = shard_of(a)
        THEN [i \in 1..MaxBlockTxs |->
                 [workchain |-> BASE_WORKCHAIN_ID, account |-> a, in_msg |-> NoMsg,
                  seq_no |-> seq_no, lt |-> i]]
        ELSE <<>>]

\* the blocks the node adds when its top shard blocks become `tops`: a block
\* after its predecessor, the two halves after the block that was split, or the
\* whole shard after the two blocks that were merged
NewBlocks(head, tops) ==
    {ShardBlock(tops[sh], head.gen_utime,
                IF sh \in DOMAIN head.tops THEN head.tops[sh]
                ELSE IF sh = "root" THEN head.tops["left"] ELSE head.tops["root"],
                IF sh = "root" /\ sh \notin DOMAIN head.tops THEN head.tops["right"] ELSE NoId,
                TxsOf(sh, tops[sh].seq_no)) :
        sh \in {x \in DOMAIN tops : x \notin DOMAIN head.tops \/ tops[x] # head.tops[x]}}

\* ShardIdent::intersect_with
intersect_with(a, b) == a = b \/ a = "root" \/ b = "root"

\* the orders in which a hash map over the shards S can be iterated
Orders(S) ==
    {o \in [1..Cardinality(S) -> S] : \A i, j \in 1..Cardinality(S) : i # j => o[i] # o[j]}

\* Edge::is_before, the map iterated in `order`
is_before(edge, id, order) ==
    IF id.shard_id \in DOMAIN edge THEN edge[id.shard_id] < id.seq_no
    ELSE LET found == SelectSeq(order, LAMBDA sh : sh \in DOMAIN edge
                                                   /\ intersect_with(id.shard_id, sh))
         IN IF found = <<>> THEN FALSE ELSE edge[Head(found)] < id.seq_no

\* lines 334-348: the stack of a shard task, from the referenced top block back
\* to the edge
RECURSIVE walk_back(_, _, _, _, _)
walk_back(chain, edge, order, stack, blocks) ==
    IF stack = <<>> THEN blocks
    ELSE LET id == stack[Len(stack)]
             block == CHOOSE b \in chain : b.id = id
             popped == SubSeq(stack, 1, Len(stack) - 1)
             with1 == IF is_before(edge, block.prev1, order)
                      THEN Append(popped, block.prev1) ELSE popped
             with2 == IF block.prev2 # NoId /\ is_before(edge, block.prev2, order)
                      THEN Append(with1, block.prev2) ELSE with1
         IN walk_back(chain, edge, order, with2, Append(blocks, block))

\* the key (gen_utime, seq_no) of a is below that of b; equal keys are told
\* apart as the unstable sort happens to, here by `order`
key_below(a, b, order) ==
    \/ a.gen_utime < b.gen_utime
    \/ a.gen_utime = b.gen_utime /\ a.id.seq_no < b.id.seq_no
    \/ /\ a.gen_utime = b.gen_utime
       /\ a.id.seq_no = b.id.seq_no
       /\ \E i, j \in DOMAIN order :
             i < j /\ order[i] = a.id.shard_id /\ order[j] = b.id.shard_id

\* line 351: blocks.sort_unstable_by_key(|(info, block)| (*info, block.id().seq_no))
RECURSIVE sort_unstable_by_key(_, _)
sort_unstable_by_key(blocks, order) ==
    IF blocks = <<>> THEN <<>>
    ELSE LET i == CHOOSE i \in DOMAIN blocks :
                     \A j \in DOMAIN blocks : ~key_below(blocks[j], blocks[i], order)
         IN <<blocks[i]>>
            \o sort_unstable_by_key(
                   SubSeq(blocks, 1, i - 1) \o SubSeq(blocks, i + 1, Len(blocks)), order)

\* lines 326-355: one task for each referenced top shard block, in the order of
\* next_shard_block_ids.values(): the tasks of the shards `rest`
RECURSIVE tasks_of(_, _, _, _, _)
tasks_of(chain, edge, ids, order, rest) ==
    IF rest = <<>> THEN <<>>
    ELSE IF Head(rest) \notin DOMAIN ids
    THEN tasks_of(chain, edge, ids, order, Tail(rest))
    ELSE <<sort_unstable_by_key(
               walk_back(chain, edge, order, <<ids[Head(rest)]>>, <<>>), order)>>
         \o tasks_of(chain, edge, ids, order, Tail(rest))

shard_tasks(chain, edge, ids, order) == tasks_of(chain, edge, ids, order, order)

\* the blocks of the tasks in the order in which lines 358-363 process them
RECURSIVE joined(_)
joined(tasks) ==
    IF tasks = <<>> THEN <<>>
    ELSE [i \in DOMAIN Head(tasks) |-> Head(tasks)[i].block] \o joined(Tail(tasks))

\* the ids of the blocks of the tasks, in the same order
RECURSIVE joined_ids(_)
joined_ids(tasks) ==
    IF tasks = <<>> THEN <<>>
    ELSE [i \in DOMAIN Head(tasks) |-> Head(tasks)[i].id] \o joined_ids(Tail(tasks))

(***************************************************************************)
(* process_block and subscriptions_gc work on                              *)
(*   st = [subs  : one of the two maps,  count : subscription_count,       *)
(*         rep   : the senders' oneshot channels,                          *)
(*         rx    : the subscribers' channels]                              *)
(***************************************************************************)
\* Option::take on the record's sender (line 449): the record keeps None
take_tx(message) == [message EXCEPT !.tx = NoSender]

\* Mutant of process_transaction: the pending message is looked up by a hash
\* that is not the inbound message hash, so nothing is ever found
process_transaction_wrong_hash(st, address, tx) ==
    [st EXCEPT !.rx = [c \in ChanIds |->
                          IF c \in Range(st.subs[address].transactions) /\ c \notin chan_closed
                          THEN Append(st.rx[c], tx)
                          ELSE st.rx[c]]]

\* lines 426-454: one transaction of a subscribed account
process_transaction(st, address, tx) ==
    LET subscription == st.subs[address]
        rx1 == [c \in ChanIds |->
                   IF c \in Range(subscription.transactions) /\ c \notin chan_closed
                   THEN Append(st.rx[c], tx)
                   ELSE st.rx[c]]
        found == {m \in subscription.pending_messages : m.hash = tx.in_msg}
    IN IF tx.in_msg = NoMsg \/ found = {}
       THEN [st EXCEPT !.rx = rx1]
       ELSE LET pending_message == CHOOSE m \in found : TRUE
            IN [subs |-> [st.subs EXCEPT ![address].pending_messages = @ \ {pending_message}],
                count |-> st.count - 1,
                rep |-> DropPendingMessage(
                            SendReply(st.rep, pending_message.tx, SomeValue(tx)),
                            take_tx(pending_message)),
                rx |-> rx1]

RECURSIVE process_transactions(_, _, _)
process_transactions(st, address, txs) ==
    IF txs = <<>> THEN st
    ELSE process_transactions(process_transaction(st, address, Head(txs)), address, Tail(txs))

\* lines 418-457: one account block; the entry is looked up once
process_account_block(st, address, txs) ==
    IF st.subs[address].present /\ ~is_empty(st.subs[address])
    THEN process_transactions(st, address, txs)
    ELSE st

RECURSIVE process_accounts(_, _, _)
process_accounts(st, block, accounts) ==
    IF accounts = <<>> THEN st
    ELSE process_accounts(
             process_account_block(st, Head(accounts), block[Head(accounts)]),
             block, Tail(accounts))

\* Subscription::process_block
process_block(st, block) == process_accounts(st, block, SortedSeq(Addrs))

RECURSIVE process_blocks(_, _)
process_blocks(st, blocks) ==
    IF blocks = <<>> THEN st
    ELSE process_blocks(process_block(st, Head(blocks)), Tail(blocks))

\* Mutant of is_invalid: a message outlives its expiry by one second
is_invalid_late(message, utime) == message.expire_at + 1 < utime

\* the expiry test that also takes the messages expiring at utime
is_invalid_eager(message, utime) == message.expire_at <= utime

\* line 467
is_invalid(message, utime) == message.expire_at < utime

\* line 475: mpsc::UnboundedSender::is_closed
is_closed(c) == c \in chan_closed

RECURSIVE SumOver(_, _)
SumOver(f, S) ==
    IF S = {} THEN 0
    ELSE LET x == CHOOSE x \in S : TRUE IN f[x] + SumOver(f, S \ {x})

\* Subscription::subscriptions_gc
subscriptions_gc(st, utime) ==
    LET expired == [a \in Addrs |-> {m \in st.subs[a].pending_messages : is_invalid(m, utime)}]
        kept == [a \in Addrs |-> SelectSeq(st.subs[a].transactions, LAMBDA c : ~is_closed(c))]
        removed == [a \in Addrs |->
                       Cardinality(expired[a])
                       + Len(st.subs[a].transactions) - Len(kept[a])]
        retained == [a \in Addrs |->
                       [present |-> TRUE,
                        pending_messages |-> st.subs[a].pending_messages \ expired[a],
                        transactions |-> kept[a]]]
    IN [subs |-> [a \in Addrs |->
                     IF st.subs[a].present /\ ~is_empty(retained[a])
                     THEN retained[a]
                     ELSE Vacant],
        count |-> st.count - SumOver(removed, Addrs),
        rep |-> DropAll(st.rep, UNION {expired[a] : a \in Addrs}),
        rx |-> st.rx]


(***************************************************************************)
(* Subscription::new: the state after construction                         *)
(***************************************************************************)
InitEngine ==
    /\ subscriptions = [wc \in Workchains |-> [a \in Addrs |-> Vacant]]
    /\ subscription_count = 0
    /\ last_mc_block = NoBlock
    /\ wpc = "arm"
    /\ signal = "none"
    /\ next_mc_block = NoNext
    /\ spc = [s \in Senders |-> "new"]
    /\ smsg = [s \in Senders |-> NoMessage]
    /\ loop_works = [s \in Senders |-> "none"]
    /\ reply = [s \in Senders |-> <<>>]
    /\ sresult = [s \in Senders |-> [kind |-> "none", tx |-> NoTx]]
    /\ attempts = [s \in Senders |-> 0]
    /\ node_head = [seq_no |-> 1, gen_utime |-> 0, shards |-> WholeShard(1),
                    tops |-> WholeShard(1),
                    chain |-> {ShardBlock(BlockIdExt("root", 1), 0, NoId, NoId,
                                          EmptyBlock)}]
    /\ chan_next = 0
    /\ chan_closed = {}
    /\ chan_rx = [c \in ChanIds |-> <<>>]
    /\ h_pulsed = [s \in Senders |-> FALSE]
    /\ h_sent = [s \in Senders |-> "none"]

walkerVars == <<wpc, signal, next_mc_block, last_mc_block>>
senderVars == <<spc, smsg, loop_works, reply, sresult, attempts, h_pulsed, h_sent>>
chanVars == <<chan_next, chan_closed, chan_rx>>
nodeVars == <<node_head>>
mapVars == <<subscriptions, subscription_count>>

(***************************************************************************)
(* The walker task: walk_blocks and make_blocks_step                       *)
(***************************************************************************)
\* lines 515-518 and 531-534: arm the subscriptions-changed signal, then test the counter
W_Arm ==
    /\ UNCHANGED schedVars
    /\ wpc = "arm"
    /\ signal' = Notified
    /\ wpc' = IF has_subscriptions THEN "update" ELSE "park"
    /\ UNCHANGED <<next_mc_block, last_mc_block, senderVars, chanVars, nodeVars, mapVars>>

\* line 534: signal.await
W_Wake ==
    /\ UNCHANGED schedVars
    /\ wpc = "park"
    /\ signal = "notified"
    /\ wpc' = "arm"
    /\ UNCHANGED <<signal, next_mc_block, last_mc_block, senderVars, chanVars, nodeVars, mapVars>>

\* Subscription::update_last_mc_block, the node answering: the node's last
\* masterchain block (the chain may have advanced since the walker last looked)
update_last_mc_block ==
    /\ \E u \in node_head.gen_utime..MaxTime :
          node_head' = [node_head EXCEPT
                           !.seq_no = node_head.seq_no + (u - node_head.gen_utime),
                           !.gen_utime = u,
                           !.shards = IF u = node_head.gen_utime THEN node_head.shards
                                      ELSE node_head.tops]
    /\ last_mc_block' = StoredMcBlock(node_head', shard_blocks_seq_no(node_head'))
    /\ next_mc_block' = NoNext

\* line 521, Ok
W_UpdateOk ==
    /\ UNCHANGED schedVars
    /\ wpc = "update"
    /\ update_last_mc_block
    /\ wpc' = "loop"
    /\ UNCHANGED <<signal, senderVars, chanVars, mapVars>>

\* line 521, Err: logged
W_UpdateErr ==
    /\ UNCHANGED schedVars
    /\ wpc = "update"
    /\ wpc' = "loop"
    /\ UNCHANGED <<signal, next_mc_block, last_mc_block, senderVars, chanVars, nodeVars, mapVars>>

\* line 525 with the cached block of get_last_mc_block (lines 389-391) and barrier #1 (line 307)
W_Loop ==
    /\ UNCHANGED schedVars
    /\ wpc = "loop"
    /\ IF ~has_subscriptions
       THEN /\ wpc' = "park"
            /\ UNCHANGED <<loop_works, h_pulsed>>
       ELSE IF last_mc_block # NoBlock
       THEN /\ wpc' = "fetch"
            /\ PulseLoopStep
       ELSE /\ wpc' = "get_last"
            /\ UNCHANGED <<loop_works, h_pulsed>>
    /\ UNCHANGED <<signal, next_mc_block, last_mc_block, spc, smsg, reply, sresult, attempts,
                   h_sent, chanVars, nodeVars, mapVars>>

\* line 392: the cache is empty, update_last_mc_block answers; barrier #1
W_GetLastOk ==
    /\ UNCHANGED schedVars
    /\ wpc = "get_last"
    /\ update_last_mc_block
    /\ PulseLoopStep
    /\ wpc' = "fetch"
    /\ UNCHANGED <<signal, spc, smsg, reply, sresult, attempts, h_sent, chanVars, mapVars>>

\* lines 302-305: the step fails before the barrier
W_GetLastErr ==
    /\ UNCHANGED schedVars
    /\ wpc = "get_last"
    /\ wpc' = "loop"
    /\ UNCHANGED <<signal, next_mc_block, last_mc_block, senderVars, chanVars, nodeVars, mapVars>>

\* the node: its shardchains grow ahead of its masterchain, or split or merge
\* after the blocks its last masterchain block references
N_Shards ==
    /\ UNCHANGED schedVars
    /\ \E tops \in ShardSuccessors(node_head.tops) :
          /\ DOMAIN tops # DOMAIN node_head.tops => node_head.tops = node_head.shards
          /\ node_head' = [node_head EXCEPT
                              !.tops = tops,
                              !.chain = @ \cup NewBlocks(node_head, tops)]
    /\ UNCHANGED <<walkerVars, senderVars, chanVars, mapVars>>

\* The external messages the node holds and can execute: those handed to
\* node_tcp_rpc.send_message whose sender still has them pending
NodeHolds ==
    {[workchain |-> smsg[s].workchain, dst |-> smsg[s].dst, hash |-> smsg[s].hash] :
        s \in {x \in Senders :
                  /\ spc[x] \in {"transmit", "wait_reply"}
                  /\ \E m \in subscriptions[smsg[x].workchain][smsg[x].dst].pending_messages :
                         m.hash = smsg[x].hash /\ m.tx = x}}

\* lines 310-355: get_next_block answers with the successor of the cached block
\* (the one a failed step already fetched, or a new one the node makes out of the
\* messages it holds); barrier #2; the shard tasks collect the blocks of the
\* node's shardchains, and with the last of them the block of the messages; a
\* later task can fail when the blocks of the tasks before it were processed
W_FetchOk ==
    /\ UNCHANGED schedVars
    /\ wpc = "fetch"
    /\ IF next_mc_block # NoNext
       THEN UNCHANGED <<next_mc_block, nodeVars>>
       ELSE \E u \in (last_mc_block.gen_utime + 1)..MaxTime :
            \E sc_exec \in SUBSET {m \in NodeHolds : m.workchain = BASE_WORKCHAIN_ID} :
            \E mc_exec \in SUBSET {m \in NodeHolds : m.workchain = MASTERCHAIN_ID} :
            \E order \in Orders(DOMAIN node_head.tops \cup DOMAIN last_mc_block.shards_edge) :
               LET tasks == shard_tasks(node_head.chain, last_mc_block.shards_edge,
                                        node_head.tops, order)
               IN /\ next_mc_block' =
                        [seq_no |-> last_mc_block.seq_no + 1,
                         gen_utime |-> u,
                         shards |-> node_head.tops,
                         shard_blocks |->
                             joined(tasks)
                             \o <<BlockOf(BASE_WORKCHAIN_ID, last_mc_block.seq_no + 1,
                                          sc_exec)>>,
                         task_ends |->
                             {Len(joined(SubSeq(tasks, 1, k))) : k \in 0..(Len(tasks) - 1)},
                         task_ids |-> joined_ids(tasks),
                         mc_block |-> BlockOf(MASTERCHAIN_ID, last_mc_block.seq_no + 1,
                                              mc_exec)]
                  /\ node_head' = [node_head EXCEPT
                                      !.seq_no = last_mc_block.seq_no + 1,
                                      !.gen_utime = u,
                                      !.shards = node_head.tops]
    /\ PulseLoopStep
    /\ wpc' = "shards"
    /\ UNCHANGED <<signal, last_mc_block, spc, smsg, reply, sresult, attempts, h_sent,
                   chanVars, mapVars>>

\* the failed fetch that drops the cached block
W_FetchErr_clears ==
    /\ UNCHANGED schedVars
    /\ wpc = "fetch"
    /\ wpc' = "loop"
    /\ last_mc_block' = NoBlock
    /\ UNCHANGED <<signal, next_mc_block, senderVars, chanVars, nodeVars, mapVars>>

\* lines 310-319: the fetch or the reading of the block fails
W_FetchErr ==
    /\ UNCHANGED schedVars
    /\ wpc = "fetch"
    /\ wpc' = "loop"
    /\ UNCHANGED <<signal, next_mc_block, last_mc_block, senderVars, chanVars, nodeVars, mapVars>>

EngineState(wc) ==
    [subs |-> subscriptions[wc], count |-> subscription_count, rep |-> reply, rx |-> chan_rx]

\* lines 357-363: the shard tasks are joined and their blocks processed
W_Shards ==
    /\ UNCHANGED schedVars
    /\ wpc = "shards"
    /\ LET st == process_blocks(EngineState(BASE_WORKCHAIN_ID), next_mc_block.shard_blocks)
       IN /\ subscriptions' = [subscriptions EXCEPT ![BASE_WORKCHAIN_ID] = st.subs]
          /\ subscription_count' = st.count
          /\ reply' = st.rep
          /\ chan_rx' = st.rx
    /\ wpc' = "finish"
    /\ UNCHANGED <<signal, next_mc_block, last_mc_block, spc, smsg, loop_works, sresult,
                   attempts, h_pulsed, h_sent, chan_next, chan_closed, nodeVars>>

\* line 359: a shard task fails and the step ends, the blocks of the tasks
\* before it processed (while the channels hold fewer than MaxReceived)
W_ShardsErr ==
    /\ UNCHANGED schedVars
    /\ wpc = "shards"
    /\ \E k \in next_mc_block.task_ends :
          LET st == process_blocks(EngineState(BASE_WORKCHAIN_ID),
                                   SubSeq(next_mc_block.shard_blocks, 1, k))
          IN /\ k > 0 => \A c \in ChanIds : Len(chan_rx[c]) < MaxReceived
             /\ subscriptions' = [subscriptions EXCEPT ![BASE_WORKCHAIN_ID] = st.subs]
             /\ subscription_count' = st.count
             /\ reply' = st.rep
             /\ chan_rx' = st.rx
    /\ wpc' = "loop"
    /\ UNCHANGED <<signal, next_mc_block, last_mc_block, spc, smsg, loop_works, sresult,
                   attempts, h_pulsed, h_sent, chan_next, chan_closed, nodeVars>>

\* the step that collects the garbage before it reads the masterchain block
process_then_gc_reversed(st, block, utime) ==
    process_block(subscriptions_gc(st, utime), block)

\* lines 364-367: the masterchain block is processed, then its map is collected
process_then_gc(st, block, utime) ==
    subscriptions_gc(process_block(st, block), utime)

\* lines 364-384: the masterchain block, GC of both maps, the cache
W_Finish ==
    /\ UNCHANGED schedVars
    /\ wpc = "finish"
    /\ LET st2 == process_then_gc(EngineState(MASTERCHAIN_ID), next_mc_block.mc_block,
                                  next_mc_block.gen_utime)
           st3 == subscriptions_gc(
                      [subs |-> subscriptions[BASE_WORKCHAIN_ID], count |-> st2.count,
                       rep |-> st2.rep, rx |-> st2.rx],
                      next_mc_block.gen_utime)
       IN /\ subscriptions' = [wc \in Workchains |->
                                  IF wc = MASTERCHAIN_ID THEN st2.subs ELSE st3.subs]
          /\ subscription_count' = st3.count
          /\ reply' = st3.rep
          /\ chan_rx' = st3.rx
    /\ last_mc_block' = StoredMcBlock(next_mc_block, edge_of(shard_blocks(next_mc_block)))
    /\ next_mc_block' = NoNext
    /\ wpc' = "loop"
    /\ UNCHANGED <<signal, spc, smsg, loop_works, sresult, attempts, h_pulsed, h_sent,
                   chan_next, chan_closed, nodeVars>>


(***************************************************************************)
(* A sender task: send_message_with_retires around send_message            *)
(***************************************************************************)
Result(kind, tx) == [kind |-> kind, tx |-> tx]

\* line 127: the messages f builds.  A message's hash covers its destination and
\* its expire-at, so each hash stands for one (workchain, dst, expire_at)
workchain_of(msg_hash) == IF msg_hash % 3 = 0 THEN MASTERCHAIN_ID ELSE BASE_WORKCHAIN_ID
dst_of(msg_hash) == 1 + (msg_hash % NumAddrs)
expire_at_of(msg_hash) == msg_hash % MaxTime

\* Mutant of poll_notified: the wait does not wait for a pulse
poll_notified_any(future) == future # "none"

\* `.await` on a Notified future: ready once the future was notified
poll_notified(future) == future = "notified"

\* the entry test that finds every hash vacant
entry_occupied_never(subscription, msg_hash) == FALSE

\* lines 160-171: subscription.pending_messages.entry(msg_hash) is Occupied
entry_occupied(subscription, msg_hash) ==
    \E m \in subscription.pending_messages : m.hash = msg_hash

\* line 123: get_signature_id answers
S_SignatureOk(s) ==
    /\ UNCHANGED schedVars
    /\ spc[s] = "new"
    /\ spc' = [spc EXCEPT ![s] = "build"]
    /\ UNCHANGED <<smsg, loop_works, reply, sresult, attempts, h_pulsed, h_sent,
                   walkerVars, chanVars, nodeVars, mapVars>>

\* line 123: get_signature_id fails, send_message_with_retires returns the error
S_SignatureErr(s) ==
    /\ UNCHANGED schedVars
    /\ spc[s] = "new"
    /\ spc' = [spc EXCEPT ![s] = "done"]
    /\ sresult' = [sresult EXCEPT ![s] = Result("err_signature", NoTx)]
    /\ UNCHANGED <<smsg, loop_works, reply, attempts, h_pulsed, h_sent,
                   walkerVars, chanVars, nodeVars, mapVars>>

\* lines 127 and 134-183: f builds a message; send_message inserts it, arms the
\* loop-step future, increments the counter and pulses subscriptions_changed,
\* all under the lock of the account entry; a hash already pending is an error
S_Send(s) ==
    /\ UNCHANGED schedVars
    /\ spc[s] = "build"
    /\ attempts[s] < MaxAttempts
    /\ \E msg_hash \in Hashes :
         LET wc == workchain_of(msg_hash)
             dst == dst_of(msg_hash)
             expire_at == expire_at_of(msg_hash)
             subscription == IF subscriptions[wc][dst].present
                             THEN subscriptions[wc][dst]
                             ELSE DefaultSubscription
         IN /\ smsg' = [smsg EXCEPT ![s] = [workchain |-> wc, dst |-> dst,
                                            hash |-> msg_hash, expire_at |-> expire_at]]
            /\ attempts' = [attempts EXCEPT ![s] = @ + 1]
            /\ IF entry_occupied(subscription, msg_hash)
               THEN /\ spc' = [spc EXCEPT ![s] = "done"]
                    /\ sresult' = [sresult EXCEPT ![s] = Result("err_already_sent", NoTx)]
                    /\ UNCHANGED <<subscriptions, subscription_count, signal, loop_works,
                                   reply, h_pulsed, h_sent>>
               ELSE /\ subscriptions' = [subscriptions EXCEPT ![wc][dst] =
                           [subscription EXCEPT !.pending_messages =
                               @ \cup {[hash |-> msg_hash, expire_at |-> expire_at, tx |-> s]}]]
                    /\ reply' = [reply EXCEPT ![s] = <<>>]
                    /\ loop_works' = [loop_works EXCEPT ![s] = Notified]
                    /\ subscription_count' = subscription_count + 1
                    /\ signal' = notify_waiters(signal)
                    /\ spc' = [spc EXCEPT ![s] = "armed"]
                    /\ h_pulsed' = [h_pulsed EXCEPT ![s] = FALSE]
                    /\ h_sent' = [h_sent EXCEPT ![s] = "none"]
                    /\ UNCHANGED sresult
    /\ UNCHANGED <<wpc, next_mc_block, last_mc_block, chanVars, nodeVars>>

\* line 189: node_tcp_rpc.send_message(data) is called, the node gets the message
StartTransmit(s) ==
    /\ spc' = [spc EXCEPT ![s] = "transmit"]
    /\ h_sent' = [h_sent EXCEPT ![s] = IF h_pulsed[s] THEN "after_pulse" ELSE "before_pulse"]

\* line 186: the first poll of subscription_loop_works
S_Poll(s) ==
    /\ UNCHANGED schedVars
    /\ spc[s] = "armed"
    /\ IF poll_notified(loop_works[s])
       THEN StartTransmit(s)
       ELSE /\ spc' = [spc EXCEPT ![s] = "wait_step"]
            /\ UNCHANGED h_sent
    /\ UNCHANGED <<smsg, loop_works, reply, sresult, attempts, h_pulsed, node_head,
                   walkerVars, chanVars, mapVars>>

\* line 186: the sender is woken by a loop-step pulse
S_StepPassed(s) ==
    /\ UNCHANGED schedVars
    /\ spc[s] = "wait_step"
    /\ poll_notified(loop_works[s])
    /\ StartTransmit(s)
    /\ UNCHANGED <<smsg, loop_works, reply, sresult, attempts, h_pulsed, node_head,
                   walkerVars, chanVars, mapVars>>

\* line 189 Ok, line 214: the sender starts waiting for its reply
S_TransmitOk(s) ==
    /\ UNCHANGED schedVars
    /\ spc[s] = "transmit"
    /\ spc' = [spc EXCEPT ![s] = "wait_reply"]
    /\ UNCHANGED <<smsg, loop_works, reply, sresult, attempts, h_pulsed, h_sent,
                   walkerVars, chanVars, nodeVars, mapVars>>

\* lines 189-210: the transmit failed; the pending message is removed
remove_pending(wc, dst, msg_hash) ==
    LET subscription == subscriptions[wc][dst]
        removed == {m \in subscription.pending_messages : m.hash = msg_hash}
        after == [subscription EXCEPT !.pending_messages = @ \ removed]
    IN IF subscription.present
       THEN /\ subscriptions' = [subscriptions EXCEPT ![wc][dst] =
                                    IF is_empty(after) THEN Vacant ELSE after]
            /\ reply' = DropAll(reply, removed)
            /\ subscription_count' = subscription_count - 1
            /\ signal' = notify_waiters(signal)
       ELSE UNCHANGED <<subscriptions, reply, subscription_count, signal>>

S_TransmitErr(s) ==
    /\ UNCHANGED schedVars
    /\ spc[s] = "transmit"
    /\ remove_pending(smsg[s].workchain, smsg[s].dst, smsg[s].hash)
    /\ spc' = [spc EXCEPT ![s] = "done"]
    /\ sresult' = [sresult EXCEPT ![s] = Result("err_transmit", NoTx)]
    /\ UNCHANGED <<smsg, loop_works, attempts, h_pulsed, h_sent, wpc, next_mc_block,
                   last_mc_block, chanVars, nodeVars>>

\* lines 214-233 and 128-130: the reply arrives; Some ends the retries, None
\* makes send_message_with_retires build the next message
S_Receive(s) ==
    /\ UNCHANGED schedVars
    /\ spc[s] = "wait_reply"
    /\ reply[s] # <<>>
    /\ LET tx == Head(reply[s])
       IN IF tx.some
          THEN /\ sresult' = [sresult EXCEPT ![s] = Result("some", tx.tx)]
               /\ spc' = [spc EXCEPT ![s] = "done"]
          ELSE /\ sresult' = [sresult EXCEPT ![s] = Result("expired", NoTx)]
               /\ spc' = [spc EXCEPT ![s] = "build"]
    /\ UNCHANGED <<smsg, loop_works, reply, attempts, h_pulsed, h_sent,
                   walkerVars, chanVars, nodeVars, mapVars>>

(***************************************************************************)
(* Subscribers and the node                                                *)
(***************************************************************************)
\* Subscription::subscribe
subscribe(wc, address) ==
    /\ UNCHANGED schedVars
    /\ chan_next < NumChannels
    /\ chan_next' = chan_next + 1
    /\ LET subscription == IF subscriptions[wc][address].present
                           THEN subscriptions[wc][address]
                           ELSE DefaultSubscription
       IN subscriptions' = [subscriptions EXCEPT ![wc][address] =
              [subscription EXCEPT !.transactions = Append(@, chan_next + 1)]]
    /\ subscription_count' = subscription_count + 1
    /\ signal' = notify_waiters(signal)
    /\ UNCHANGED <<wpc, next_mc_block, last_mc_block, senderVars, chan_closed, chan_rx, nodeVars>>

\* The holder of a TransactionsRx drops it
DropReceiver(c) ==
    /\ UNCHANGED schedVars
    /\ c <= chan_next
    /\ c \notin chan_closed
    /\ chan_closed' = chan_closed \cup {c}
    /\ UNCHANGED <<chan_next, chan_rx, walkerVars, senderVars, nodeVars, mapVars>>

(***************************************************************************)
(* The retry envelope's arithmetic (Cmd::run, validation_fut)              *)
(*                                                                         *)
(* u64 is modelled UintBits wide and the f64 significand MantBits wide.    *)
(* An f64 is written as twice its value, so that the multipliers n/2 are   *)
(* integers; Infinity is a value of its own.  Negative multipliers and NaN *)
(* are left out: Float::max turns them into 1.0 as it does 0.0.            *)
(***************************************************************************)
RECURSIVE Pow2(_)
Pow2(n) == IF n = 0 THEN 1 ELSE 2 * Pow2(n - 1)

U64_MAX == Pow2(UintBits) - 1
U64 == 0..U64_MAX

Infinity == 0 - 1
Multipliers == (0..MaxMult2) \cup {Infinity}

Min(a, b) == IF a < b THEN a ELSE b
Max(a, b) == IF a < b THEN b ELSE a

\* the number of bits of n
RECURSIVE BitLen(_)
BitLen(n) == IF n = 0 THEN 0 ELSE 1 + BitLen(n \div 2)

\* n rounded to MantBits significant bits, ties to even: what fits in a float
RoundMant(n) ==
    IF BitLen(n) <= MantBits THEN n
    ELSE LET e == Pow2(BitLen(n) - MantBits)
             q == n \div e
             r == n % e
         IN IF 2 * r > e \/ (2 * r = e /\ q % 2 = 1) THEN (q + 1) * e ELSE q * e

\* `interval as f64`
u64_as_f64(n) == 2 * RoundMant(n)

\* f64 multiplication of a finite x by the multiplier m, both at least 1.0
f64_mul(x, m) == IF m = Infinity THEN Infinity ELSE RoundMant((x * m) \div 2)

\* `... as u64`: truncates and saturates
f64_as_u64(x) == IF x = Infinity THEN U64_MAX ELSE Min(x \div 2, U64_MAX)

\* num::Float::max(multiplier, 1.0)
float_max_one(m) == IF m = Infinity THEN Infinity ELSE Max(m, 2)

\* the interval after a failed attempt
next_interval(i) ==
    Min(max_retry_interval,
        f64_as_u64(f64_mul(u64_as_f64(i), retry_interval_multiplier)))

(***************************************************************************)
(* The election scheduler (Cmd::run, ValidationManager::try_validate,      *)
(* AppConfigValidationSingle::elect, AppConfigValidationDePool::elect,     *)
(* update_depool) and the signal task                                      *)
(***************************************************************************)
ErrorKinds == {"retryable", "fatal"}

\* the wallet calls the scheduler makes
GuardedCalls == {"recover_stake", "add_ordinary_stake", "participate"}
WalletCalls == GuardedCalls \cup {"ticktock"}

SinglePcs == {"s_start", "s_lock_recover", "s_recover", "s_recover_call", "s_elected",
              "s_balance", "s_lock_elect", "s_prepare", "s_elect_call"}
DePoolPcs == {"d_start", "d_update", "d_stake_balance", "d_lock_stake", "d_stake",
              "d_stake_call", "d_round", "d_ticktock_call", "d_refresh", "d_step",
              "d_balance", "d_lock_elect", "d_prepare", "d_elect_call"}
ElectPcs == SinglePcs \cup DePoolPcs
PassPcs == {"try", "sync", "sync_check", "config", "timeline", "elector"}

\* where an elect routine returns an error the spec calls fatal: the ensure!s
FatalAt == {"s_start", "d_start", "d_update"}
\* where an elect routine returns the error of a failed await or payload
RetryableAt == {"s_recover", "s_recover_call", "s_balance", "s_prepare", "s_elect_call",
                "d_start", "d_update", "d_stake_balance", "d_stake", "d_stake_call",
                "d_ticktock_call", "d_refresh", "d_balance", "d_prepare", "d_elect_call"}

(***************************************************************************)
(* try_validate: the node sync, the timeline and its dispatch              *)
(*                                                                         *)
(* u32 is modelled U32Bits wide.                                           *)
(***************************************************************************)
U32_MAX == Pow2(U32Bits) - 1
U32 == 0..U32_MAX

\* Option<u32>::None
NoneU32 == 0 - 1

\* u32::saturating_sub
saturating_sub(a, b) == IF a >= b THEN a - b ELSE 0

\* u32::checked_sub
checked_sub(a, b) == IF a >= b THEN a - b ELSE NoneU32

\* u32 `+` in a build without overflow checks
wrapping_add(a, b) == (a + b) % (U32_MAX + 1)

NoTimings == [round_end |-> 0, elections_start_before |-> 0, elections_end_before |-> 0,
              now |-> 0]

Phase(kind, until_start, since_start, until_end, end, until_round_end) ==
    [kind |-> kind, until_elections_start |-> until_start,
     since_elections_start |-> since_start, until_elections_end |-> until_end,
     elections_end |-> end, until_round_end |-> until_round_end]

NoTimeline == Phase("none", 0, 0, 0, 0, 0)

\* Timeline::compute: where the election window opens and closes
elections_start(t) == saturating_sub(t.round_end, t.elections_start_before)
elections_end(t) == saturating_sub(t.round_end, t.elections_end_before)

\* Timeline::compute(timings, current_vset, now)
compute(t) ==
    IF checked_sub(elections_start(t), t.now) # NoneU32
    THEN Phase("BeforeElections", checked_sub(elections_start(t), t.now), 0, 0, 0, 0)
    ELSE IF checked_sub(elections_end(t), t.now) # NoneU32
    THEN Phase("Elections", 0, saturating_sub(t.now, elections_start(t)),
               checked_sub(elections_end(t), t.now), elections_end(t), 0)
    ELSE Phase("AfterElections", 0, 0, 0, 0, saturating_sub(t.round_end, t.now))

Continue(i) == [next |-> "continue", interval |-> i]

\* the dispatch that takes part whatever the margins of the window are
dispatch_no_margins(tl) ==
    IF tl.kind = "BeforeElections"
    THEN Continue(wrapping_add(tl.until_elections_start, elections_start_offset))
    ELSE IF tl.kind = "Elections" THEN [next |-> "elect", interval |-> 0]
    ELSE Continue(tl.until_round_end)

\* try_validate: `match timeline`, what the pass does next and the interval it sets
dispatch(tl) ==
    IF tl.kind = "BeforeElections"
    THEN IF tl.until_elections_start + elections_start_offset > U32_MAX /\ overflow_checks
         THEN [next |-> "panic", interval |-> 0]
         ELSE Continue(wrapping_add(tl.until_elections_start, elections_start_offset))
    ELSE IF tl.kind = "Elections"
    THEN IF checked_sub(elections_start_offset, tl.since_elections_start) # NoneU32
         THEN Continue(checked_sub(elections_start_offset, tl.since_elections_start))
         ELSE IF checked_sub(elections_end_offset, tl.until_elections_end) # NoneU32
         THEN Continue(checked_sub(elections_end_offset, tl.until_elections_end))
         ELSE [next |-> "elect", interval |-> 0]
    ELSE Continue(tl.until_round_end)

\* the sleep that lasts what was asked for
pass_sleep_exact(i) == i

\* try_validate: the sleep at the top of a pass, 0 for none
pass_sleep(i) == IF i > 0 THEN Max(i, PASS_SLEEP_FLOOR) ELSE 0

\* NodeStats
NotReady == [running |-> FALSE, mc_time_diff |-> 0, sc_time_diff |-> 0]
Running_(mc, sc) == [running |-> TRUE, mc_time_diff |-> mc, sc_time_diff |-> sc]
NoStats == [running |-> FALSE, mc_time_diff |-> 0 - 1, sc_time_diff |-> 0 - 1]
TimeDiffs == (0 - 1)..MaxDiff
NodeStats == {NotReady} \cup {Running_(mc, sc) : mc \in TimeDiffs, sc \in TimeDiffs}

\* ValidationManager::max_time_diff as Cmd::run sets it
manager_max_time_diff == Max(max_time_diff, MIN_TIME_DIFF)

\* the sync test that looks at the masterchain only
is_synced_mc_only(st, only_mc) ==
    st.running /\ st.mc_time_diff < manager_max_time_diff

\* wait_until_synced: the test that ends the loop
is_synced(st, only_mc) ==
    /\ st.running
    /\ st.mc_time_diff < manager_max_time_diff
    /\ (only_mc \/ st.sc_time_diff < manager_max_time_diff)

\* AppConfigValidation: Single or DePool
Modes == {"single", "depool"}

\* AppConfigValidation::is_single
is_single(m) == m = "single"

\* elector::ElectorData as the routine of mode m reads it: election_id 0 stands
\* for None
Participants == {"wallet", "proxy0", "proxy1"}
NoElectorData == [election_id |-> 0, unfrozen |-> FALSE, elected |-> {}]
ElectorDatas(m) ==
    {NoElectorData} \cup
    IF is_single(m)
    THEN [election_id : {1}, unfrozen : BOOLEAN, elected : SUBSET {"wallet"}]
    ELSE [election_id : {1}, unfrozen : {FALSE}, elected : SUBSET {"proxy0", "proxy1"}]

\* those of the elector's participants that the data read in mode m can list
Listed(m) ==
    participants \cap (IF is_single(m) THEN {"wallet"} ELSE {"proxy0", "proxy1"})

\* ElectorData::elected that never finds the address
elected_never(data, address) == FALSE

\* ElectorData::has_unfrozen_stake that never finds a stake
has_unfrozen_stake_never(data, address) == FALSE

\* ElectorData::has_unfrozen_stake(address)
has_unfrozen_stake(data, address) == data.unfrozen

\* ElectorData::elected(address)
elected(data, address) == address \in data.elected

\* depool::RoundStep, and the (round id, step) update_depool returns
RoundSteps == {"Pooling", "WaitingValidatorRequest", "Completed"}
NoRound == [id |-> 0, step |-> "none"]

\* the selection that takes the first proxy whatever the round is
proxy_of_first(round_id) == "proxy0"

\* depool_info.proxies[round_id as usize % 2]
proxy_of(round_id) == IF round_id % 2 = 0 THEN "proxy0" ELSE "proxy1"

\* tokio::time::timeout(deadline, validation): the duration and the seconds the
\* routine has run
NoTimeout == [deadline |-> 0, elapsed |-> 0]

\* the deadline that forgets the end offset
deadline_of_end(end, end_offset, now) == saturating_sub(end, now)

\* lines 254-258: elections_end.saturating_sub(elections_end_offset).saturating_sub(now())
deadline_of(end, end_offset, now) ==
    saturating_sub(saturating_sub(end, end_offset), now)

\* the inputs of the scheduler's passes: one of each phase and margin
SchedTimings ==
    {[round_end |-> 12, elections_start_before |-> 8, elections_end_before |-> 2, now |-> n] :
        n \in {1, 4, 5, 7, 9, 10, 11}}

\* now(): the wall clock reads the target block's time or later
WallClock == {timings.now, Min(timings.now + 2, U32_MAX)}

\* the scheduler at pc of its first attempt (or before it, at "init"), in the
\* mode m and with the timings t
InitSchedAt(pc, m, t) ==
    /\ epc = pc
    /\ guard = "free"
    /\ call = "none"
    /\ update_attempts = 0
    /\ tries = IF pc = "init" THEN 0 ELSE 1
    /\ last_error = "none"
    /\ sigpc = "listening"
    /\ cancelled = FALSE
    /\ run_result = "running"
    /\ abandoned = "none"
    /\ interval = IF pc = "init" THEN 0 ELSE 1
    /\ mode = m
    /\ stats = NoStats
    /\ timings = t
    /\ timeline = NoTimeline
    /\ elector_data = NoElectorData
    /\ target_round = NoRound
    /\ t_interval = 0
    /\ h_slept = 0
    /\ outcome = "none"
    /\ timeout = NoTimeout
    /\ participants = {}
    /\ h_made = {}

InitSched == InitSchedAt("init", "none", NoTimings)

sigVars == <<sigpc, cancelled, abandoned>>
envVars == <<tries, interval, min_retry_interval, max_retry_interval,
             retry_interval_multiplier>>

\* validation_fut is polled: the scheduler was not cancelled and run has not returned
Running == ~cancelled /\ run_result = "running"

\* guard.lock().await skipped: no guard is taken
lock_none == guard' = guard

\* guard.lock().await
lock == guard = "free" /\ guard' = "scheduler"

\* the _guard of the routine goes out of scope
unlock == guard' = IF guard = "scheduler" THEN "free" ELSE guard

\* the elect future is dropped or returns: its guard and its wallet call go with it
DropRoutine ==
    /\ unlock
    /\ call' = "none"
    /\ update_attempts' = 0
    /\ timeout' = NoTimeout

\* the envelope that gives up on a fatal error: not what the loop does
on_attempt_error_fatal_exits(kind) ==
    IF kind = "fatal" THEN [epc |-> "failed", run_result |-> "err"]
    ELSE [epc |-> "retry_sleep", run_result |-> "running"]

\* `if let Err(e) = manager.try_validate().await { error!(..) }`, then the sleep
on_attempt_error(kind) == [epc |-> "retry_sleep", run_result |-> "running"]

\* try_validate returns Err(e)
ReturnErr(kind) ==
    /\ DropRoutine
    /\ last_error' = kind
    /\ epc' = on_attempt_error(kind).epc
    /\ run_result' = on_attempt_error(kind).run_result
    /\ UNCHANGED <<sigVars, envVars, optVars, participants, passVars, sleepVars, h_made, engineVars>>

\* the elect routine is over: `interval = elections_end.saturating_sub(now())`, and
\* try_validate goes on to its next pass; the elector lists ps
NextPassWith(res, ps) ==
    /\ participants' = ps
    /\ DropRoutine
    /\ outcome' = res
    /\ epc' = "pass_sleep"
    /\ \E n \in WallClock : t_interval' = saturating_sub(timeline.elections_end, n)
    /\ UNCHANGED <<last_error, run_result, sigVars, envVars, optVars, passVars, h_slept,
                   h_made, engineVars>>

\* the routine is over with the elector's list as it was
NextPass(res) == NextPassWith(res, participants)

\* a step of the routine that neither takes the guard nor starts or ends a call
Goto(pc) ==
    /\ epc' = pc
    /\ UNCHANGED <<guard, call, update_attempts, last_error, run_result, sigVars, envVars,
                   optVars, timeout, participants, passVars, sleepVars, h_made, engineVars>>

\* wallet.call(..) starts: one send_message_with_retires of the subscription
StartCall(kind, pc) ==
    /\ call' = kind
    /\ h_made' = h_made \cup {kind}
    /\ epc' = pc
    /\ UNCHANGED <<guard, last_error, run_result, sigVars, envVars, optVars, timeout, participants, passVars,
                   sleepVars, engineVars>>

\* the locals of a pass of try_validate at its start, but for the mode m
NewPass(m) ==
    /\ mode' = m
    /\ stats' = NoStats
    /\ timings' = NoTimings
    /\ timeline' = NoTimeline
    /\ elector_data' = NoElectorData
    /\ target_round' = NoRound
    /\ h_made' = {}

\* validation_fut: the options are normalised and the first attempt starts
V_Start ==
    /\ Running
    /\ epc = "init"
    /\ min_retry_interval' = Max(min_retry_interval, 1)
    /\ max_retry_interval' = Max(max_retry_interval, Max(min_retry_interval, 1))
    /\ retry_interval_multiplier' = float_max_one(retry_interval_multiplier)
    /\ interval' = Max(min_retry_interval, 1)
    /\ tries' = tries + 1
    /\ t_interval' = 0
    /\ epc' = "try"
    /\ UNCHANGED <<guard, call, update_attempts, last_error, run_result, sigVars, optVars, timeout, participants,
                   passVars, h_slept, outcome, h_made, engineVars>>

\* validation_fut: the sleep after a failed attempt is over, the next attempt starts
V_Retry ==
    /\ Running
    /\ epc = "retry_sleep"
    /\ tries < MaxTries
    /\ interval' = next_interval(interval)
    /\ tries' = tries + 1
    /\ t_interval' = 0
    /\ NewPass("none")
    /\ epc' = "try"
    /\ UNCHANGED <<guard, call, update_attempts, last_error, run_result, sigVars,
                   configVars, optVars, timeout, participants, h_slept, engineVars>>
    /\ outcome' = "none"

\* try_validate: the top of a pass, with its sleep if an interval is set
T_Wake ==
    /\ Running
    /\ epc = "pass_sleep"
    /\ h_slept' = pass_sleep(t_interval)
    /\ outcome' = "none"
    /\ t_interval' = pass_sleep(t_interval)
    /\ epc' = "try"
    /\ UNCHANGED <<guard, call, update_attempts, last_error, run_result, sigVars, envVars,
                   optVars, timeout, participants, passVars, h_made, engineVars>>

\* try_validate: the body of a pass starts with fresh locals; the config file is
\* read, with the validation mode it holds
T_Config ==
    /\ Running
    /\ epc = "try"
    /\ \E m \in Modes : NewPass(m)
    /\ epc' = "sync"
    /\ UNCHANGED <<guard, call, update_attempts, last_error, run_result, sigVars, envVars,
                   optVars, timeout, participants, sleepVars, engineVars>>

\* wait_until_synced: the node answers get_stats
T_Stats ==
    /\ Running
    /\ epc = "sync"
    /\ stats' \in NodeStats
    /\ epc' = "sync_check"
    /\ UNCHANGED <<guard, call, update_attempts, last_error, run_result, sigVars, envVars,
                   optVars, timeout, participants, mode, timings, timeline, elector_data, target_round,
                   sleepVars, h_made, engineVars>>

\* wait_until_synced: the stats end the loop and are returned, or it sleeps and
\* asks again
T_Synced ==
    /\ Running
    /\ epc = "sync_check"
    /\ IF is_synced(stats, is_single(mode))
       THEN /\ epc' = "config"
            /\ UNCHANGED stats
       ELSE /\ epc' = "sync"
            /\ stats' = NoStats
    /\ UNCHANGED <<guard, call, update_attempts, last_error, run_result, sigVars, envVars,
                   optVars, timeout, participants, mode, timings, timeline, elector_data, target_round,
                   sleepVars, h_made, engineVars>>

\* try_validate: the stats returned are dropped; the node answers with the
\* blockchain config and the target block
T_Target ==
    /\ Running
    /\ epc = "config"
    /\ stats' = NoStats
    /\ timings' \in SchedTimings
    /\ epc' = "timeline"
    /\ UNCHANGED <<guard, call, update_attempts, last_error, run_result, sigVars, envVars,
                   optVars, timeout, participants, mode, timeline, elector_data, target_round,
                   sleepVars, h_made, engineVars>>

\* try_validate: Timeline::compute and the `match timeline`
T_Timeline ==
    /\ Running
    /\ epc = "timeline"
    /\ timeline' = compute(timings)
    /\ LET d == dispatch(compute(timings))
       IN /\ epc' = IF d.next = "continue" THEN "pass_sleep"
                    ELSE IF d.next = "elect" THEN "elector" ELSE "panicked"
          /\ t_interval' = IF d.next = "continue" THEN d.interval ELSE t_interval
          /\ run_result' = IF d.next = "panic" THEN "panic" ELSE run_result
    /\ UNCHANGED <<guard, call, update_attempts, last_error, sigVars, envVars,
                   optVars, timeout, participants, mode, stats, timings, elector_data, target_round,
                   h_slept, outcome, h_made, engineVars>>

\* try_validate: a `?` before the elect routine returns an error
T_Fail ==
    /\ Running
    /\ epc \in PassPcs
    /\ \E kind \in ErrorKinds : ReturnErr(kind)

\* the pass that enters the elect routine whatever the elector's data holds
T_Elect_enters ==
    /\ Running
    /\ epc = "elector"
    /\ elector_data' \in ElectorDatas(mode)
    /\ epc' = IF is_single(mode) THEN "s_start" ELSE "d_start"
    /\ \E n \in WallClock :
          timeout' = [deadline |-> deadline_of(timeline.elections_end,
                                               elections_end_offset, n),
                      elapsed |-> 0]
    /\ h_made' = {}
    /\ UNCHANGED <<guard, call, update_attempts, last_error, run_result, sigVars, envVars,
                   optVars, participants, mode, stats, timings, timeline, target_round,
                   sleepVars, engineVars>>

\* try_validate: the elector's data is read; without an election id the pass
\* ends, with one the elect routine of the configured mode starts under its
\* timeout
T_Elect ==
    /\ Running
    /\ epc = "elector"
    /\ \E data \in ElectorDatas(mode) :
          /\ data.election_id # 0 => Listed(mode) \subseteq data.elected
          /\ elector_data' = data
          /\ IF data.election_id = 0
             THEN /\ t_interval' = 1
                  /\ epc' = "pass_sleep"
                  /\ UNCHANGED timeout
             ELSE /\ epc' = IF is_single(mode) THEN "s_start" ELSE "d_start"
                  /\ \E n \in WallClock :
                        timeout' = [deadline |-> deadline_of(timeline.elections_end,
                                                             elections_end_offset, n),
                                    elapsed |-> 0]
                  /\ UNCHANGED t_interval
    /\ h_made' = {}
    /\ UNCHANGED <<guard, call, update_attempts, last_error, run_result, sigVars, envVars,
                   optVars, participants, mode, stats, timings, timeline, target_round,
                   h_slept, outcome, engineVars>>

\* the failed routine after which the pass goes on as after a successful one
Elect_Err_sleeps ==
    /\ Running
    /\ epc \in FatalAt \cup RetryableAt
    /\ NextPass("ok")

\* tokio::time::timeout(deadline, validation): Ok(Err(e)) => return Err(e)
Elect_Err ==
    /\ Running
    /\ \/ epc \in FatalAt /\ ReturnErr("fatal")
       \/ epc \in RetryableAt /\ ReturnErr("retryable")

\* a second passes while the elect routine awaits, the deadline not reached
\* (the awaits of the routine are not timed one by one)
Elect_Tick ==
    /\ Running
    /\ epc \in ElectPcs
    /\ timeout.elapsed < timeout.deadline
    /\ timeout' = [timeout EXCEPT !.elapsed = @ + 1]
    /\ UNCHANGED <<epc, guard, call, update_attempts, last_error, run_result, sigVars,
                   envVars, optVars, participants, passVars, sleepVars, h_made, engineVars>>

\* a timeout that leaves the routine pending at the deadline: not what
\* tokio::time::timeout does
Elect_Deadline_pending ==
    /\ Running
    /\ epc \in ElectPcs
    /\ timeout.elapsed = timeout.deadline
    /\ Goto(epc)

\* tokio::time::timeout(deadline, validation): Err(_), the deadline elapsed
\* with the routine pending, and the routine is dropped
Elect_Deadline ==
    /\ Running
    /\ epc \in ElectPcs
    /\ timeout.elapsed = timeout.deadline
    /\ NextPass("deadline")

\* Single::elect: the wallet matches; has_unfrozen_stake
E_Start ==
    /\ Running
    /\ epc = "s_start"
    /\ Goto(IF has_unfrozen_stake(elector_data, "wallet") THEN "s_lock_recover"
            ELSE "s_elected")

\* Single::elect: the guard of the stake recovery
E_LockRecover ==
    /\ Running
    /\ epc = "s_lock_recover"
    /\ lock
    /\ epc' = "s_recover"
    /\ UNCHANGED <<call, update_attempts, last_error, run_result, sigVars, envVars, optVars, timeout, participants, passVars, sleepVars, h_made, engineVars>>

\* Single::elect: wallet.call(recover_stake) starts
E_RecoverStart ==
    /\ Running
    /\ epc = "s_recover"
    /\ StartCall("recover_stake", "s_recover_call")
    /\ UNCHANGED update_attempts

\* Single::elect: wallet.call(recover_stake) returns, the block of the guard ends
E_RecoverOk ==
    /\ Running
    /\ epc = "s_recover_call"
    /\ call' = "none"
    /\ unlock
    /\ epc' = "s_elected"
    /\ UNCHANGED <<update_attempts, last_error, run_result, sigVars, envVars, optVars, timeout, participants, passVars, sleepVars, h_made, engineVars>>

\* Single::elect: elector_data.elected(wallet)
E_Elected ==
    /\ Running
    /\ epc = "s_elected"
    /\ IF elected(elector_data, "wallet") THEN NextPass("ok") ELSE Goto("s_balance")

\* Single::elect: wait_for_balance returns
E_Balance ==
    /\ Running
    /\ epc = "s_balance"
    /\ Goto("s_lock_elect")

\* Single::elect: the guard of the election
E_LockElect ==
    /\ Running
    /\ epc = "s_lock_elect"
    /\ lock
    /\ epc' = "s_prepare"
    /\ UNCHANGED <<call, update_attempts, last_error, run_result, sigVars, envVars, optVars, timeout, participants, passVars, sleepVars, h_made, engineVars>>

\* Single::elect: the payload is built, wallet.call(participate) starts
E_Prepare ==
    /\ Running
    /\ epc = "s_prepare"
    /\ StartCall("participate", "s_elect_call")
    /\ UNCHANGED update_attempts

\* Single::elect: wallet.call(participate) returns, Ok(()); the elector has
\* taken the stake of the wallet, or has sent it back
E_ElectOk ==
    /\ Running
    /\ epc = "s_elect_call"
    /\ \E ps \in {participants, participants \cup {"wallet"}} : NextPassWith("ok", ps)

\* DePool::elect: the wallet, the pool's owner and its proxies match; update_depool starts
D_Start ==
    /\ Running
    /\ epc = "d_start"
    /\ update_attempts' = UPDATE_ATTEMPTS
    /\ epc' = "d_update"
    /\ UNCHANGED <<guard, call, last_error, run_result, sigVars, envVars, optVars, timeout, participants, passVars, sleepVars, h_made, engineVars>>

\* update_depool: participant info and rounds; is a stake to be added
D_Update ==
    /\ Running
    /\ epc = "d_update"
    /\ \E remaining \in BOOLEAN : Goto(IF remaining THEN "d_stake_balance" ELSE "d_round")

\* update_depool: wait_for_balance returns
D_StakeBalance ==
    /\ Running
    /\ epc = "d_stake_balance"
    /\ Goto("d_lock_stake")

\* update_depool: the guard of the stake addition
D_LockStake ==
    /\ Running
    /\ epc = "d_lock_stake"
    /\ lock
    /\ epc' = "d_stake"
    /\ UNCHANGED <<call, update_attempts, last_error, run_result, sigVars, envVars, optVars, timeout, participants, passVars, sleepVars, h_made, engineVars>>

\* update_depool: wallet.call(add_ordinary_stake) starts
D_StakeStart ==
    /\ Running
    /\ epc = "d_stake"
    /\ StartCall("add_ordinary_stake", "d_stake_call")
    /\ UNCHANGED update_attempts

\* update_depool: wallet.call(add_ordinary_stake) returns, the block of the guard ends
D_StakeOk ==
    /\ Running
    /\ epc = "d_stake_call"
    /\ call' = "none"
    /\ unlock
    /\ epc' = "d_round"
    /\ UNCHANGED <<update_attempts, last_error, run_result, sigVars, envVars, optVars, timeout, participants, passVars, sleepVars, h_made, engineVars>>

\* the loop that sends a ticktock whatever attempts are left
D_Round_unbounded ==
    /\ Running
    /\ epc = "d_round"
    /\ update_attempts' = IF update_attempts > 0 THEN update_attempts - 1 ELSE 0
    /\ StartCall("ticktock", "d_ticktock_call")

\* update_depool: the target round is configured and is returned (the round of
\* the election, whose proxy is the one the elector lists if it lists one), or an
\* attempt is spent and wallet.call(ticktock) starts, or no attempt is left
D_Round ==
    /\ Running
    /\ epc = "d_round"
    /\ \/ /\ \E id \in 0..1, step \in RoundSteps :
                /\ Listed(mode) # {} => proxy_of(id) \in participants
                /\ target_round' = [id |-> id, step |-> step]
          /\ epc' = "d_step"
          /\ UNCHANGED <<guard, call, update_attempts, last_error, run_result, sigVars,
                         envVars, optVars, timeout, participants, mode, stats, timings, timeline, elector_data,
                         sleepVars, h_made, engineVars>>
       \/ /\ update_attempts - 1 > 0
          /\ update_attempts' = update_attempts - 1
          /\ StartCall("ticktock", "d_ticktock_call")
       \/ /\ ~(update_attempts - 1 > 0)
          /\ ReturnErr("fatal")

\* update_depool: wallet.call(ticktock) returns
D_TicktockOk ==
    /\ Running
    /\ epc = "d_ticktock_call"
    /\ call' = "none"
    /\ epc' = "d_refresh"
    /\ UNCHANGED <<guard, update_attempts, last_error, run_result, sigVars, envVars, optVars, timeout, participants, passVars, sleepVars,
                   h_made, engineVars>>

\* update_depool: UPDATE_INTERVAL has passed and the pool's state is read again
D_Refresh ==
    /\ Running
    /\ epc = "d_refresh"
    /\ Goto("d_update")

\* DePool::elect: the step of the round; elector_data.elected(proxy)
D_Step ==
    /\ Running
    /\ epc = "d_step"
    /\ IF target_round.step # "WaitingValidatorRequest" THEN NextPass("ok")
       ELSE IF elected(elector_data, proxy_of(target_round.id)) THEN NextPass("ok")
       ELSE Goto("d_balance")

\* DePool::elect: wait_for_balance returns
D_Balance ==
    /\ Running
    /\ epc = "d_balance"
    /\ Goto("d_lock_elect")

\* DePool::elect: the guard of the election
D_LockElect ==
    /\ Running
    /\ epc = "d_lock_elect"
    /\ lock
    /\ epc' = "d_prepare"
    /\ UNCHANGED <<call, update_attempts, last_error, run_result, sigVars, envVars, optVars, timeout, participants, passVars, sleepVars, h_made, engineVars>>

\* DePool::elect: the payload is built, wallet.call(participate) starts
D_Prepare ==
    /\ Running
    /\ epc = "d_prepare"
    /\ StartCall("participate", "d_elect_call")
    /\ UNCHANGED update_attempts

\* DePool::elect: wallet.call(participate) returns, Ok(()); the elector has
\* taken the stake of the round's proxy, or has sent it back
D_ElectOk ==
    /\ Running
    /\ epc = "d_elect_call"
    /\ \E ps \in {participants, participants \cup {proxy_of(target_round.id)}} :
          NextPassWith("ok", ps)

\* the signal task: signal_rx.await returns a termination signal
G_Signal ==
    /\ sigpc = "listening"
    /\ sigpc' = "locking"
    /\ UNCHANGED <<epc, guard, call, update_attempts, last_error, run_result, cancelled,
                   abandoned, envVars, optVars, timeout, participants, passVars, sleepVars, h_made, engineVars>>

\* the signal task: validation_mutex.lock().await
G_Lock ==
    /\ sigpc = "locking"
    /\ guard = "free"
    /\ guard' = "signal"
    /\ sigpc' = "locked"
    /\ UNCHANGED <<epc, call, update_attempts, last_error, run_result, cancelled,
                   abandoned, envVars, optVars, timeout, participants, passVars, sleepVars, h_made, engineVars>>

\* the signal task: cancellation_token.cancel(), and its guard goes out of scope
G_Cancel ==
    /\ sigpc = "locked"
    /\ cancelled' = TRUE
    /\ guard' = "free"
    /\ sigpc' = "done"
    /\ UNCHANGED <<epc, call, update_attempts, last_error, run_result, abandoned, envVars, optVars, timeout, participants, passVars, sleepVars,
                   h_made, engineVars>>

\* Cmd::run: the select! takes `cancelled`, validation_fut is dropped, Ok(())
M_Cancelled ==
    /\ cancelled
    /\ run_result = "running"
    /\ abandoned' = call
    /\ DropRoutine
    /\ epc' = "dropped"
    /\ run_result' = "ok"
    /\ UNCHANGED <<last_error, sigpc, cancelled, envVars, optVars, participants, passVars, sleepVars, h_made, engineVars>>

\* an attempt fails: try_validate as the retry envelope sees it
B_AttemptFails ==
    /\ Running
    /\ epc = "try"
    /\ ReturnErr("retryable")

InitConfig ==
    /\ min_retry_interval = 1
    /\ max_retry_interval = 4
    /\ retry_interval_multiplier = 4

InitOptions ==
    /\ elections_start_offset = 2
    /\ elections_end_offset = 2
    /\ max_time_diff = 0
    /\ overflow_checks = FALSE

Init == InitEngine /\ InitSched /\ InitConfig /\ InitOptions

Next ==
    \/ W_Arm
    \/ W_Wake
    \/ W_UpdateOk
    \/ W_UpdateErr
    \/ W_Loop
    \/ W_GetLastOk
    \/ W_GetLastErr
    \/ W_FetchOk
    \/ W_FetchErr
    \/ W_Shards
    \/ W_ShardsErr
    \/ W_Finish
    \/ \E s \in Senders : S_SignatureOk(s)
    \/ \E s \in Senders : S_SignatureErr(s)
    \/ \E s \in Senders : S_Send(s)
    \/ \E s \in Senders : S_Poll(s)
    \/ \E s \in Senders : S_StepPassed(s)
    \/ \E s \in Senders : S_TransmitOk(s)
    \/ \E s \in Senders : S_TransmitErr(s)
    \/ \E s \in Senders : S_Receive(s)
    \/ \E wc \in Workchains, a \in Addrs : subscribe(wc, a)
    \/ \E c \in ChanIds : DropReceiver(c)

Spec == Init /\ [][Next]_vars

NextSched ==
    \/ V_Start
    \/ V_Retry
    \/ T_Wake
    \/ T_Config
    \/ T_Stats
    \/ T_Synced
    \/ T_Target
    \/ T_Timeline
    \/ T_Fail
    \/ T_Elect
    \/ Elect_Err
    \/ Elect_Tick
    \/ Elect_Deadline
    \/ E_Start
    \/ E_LockRecover
    \/ E_RecoverStart
    \/ E_RecoverOk
    \/ E_Elected
    \/ E_Balance
    \/ E_LockElect
    \/ E_Prepare
    \/ E_ElectOk
    \/ D_Start
    \/ D_Update
    \/ D_StakeBalance
    \/ D_LockStake
    \/ D_StakeStart
    \/ D_StakeOk
    \/ D_Round
    \/ D_TicktockOk
    \/ D_Refresh
    \/ D_Step
    \/ D_Balance
    \/ D_LockElect
    \/ D_Prepare
    \/ D_ElectOk
    \/ G_Signal
    \/ G_Lock
    \/ G_Cancel
    \/ M_Cancelled

SpecSched == Init /\ [][NextSched]_vars

\* The scheduler with what its runtime guarantees: the clock of the timeout goes on
\* and the timeout fires (Elect_Tick, Elect_Deadline); the tokio Mutex hands the
\* guard to its waiters in the order they asked, so the signal task, once it
\* waits, is not passed over for ever (G_Lock); a spawned task that can run does
\* run (G_Cancel), and select! returns once the token is cancelled (M_Cancelled).
\* Nothing is assumed of the node: no call of the routine has to return.
SpecShutdown ==
    /\ Init
    /\ [][NextSched]_vars
    /\ WF_vars(Elect_Tick)
    /\ WF_vars(Elect_Deadline)
    /\ SF_vars(G_Lock)
    /\ WF_vars(G_Cancel)
    /\ WF_vars(M_Cancelled)

InitBackoff ==
    /\ InitEngine
    /\ InitSched
    /\ InitOptions
    /\ min_retry_interval \in U64
    /\ max_retry_interval \in U64
    /\ retry_interval_multiplier \in Multipliers

NextBackoff ==
    \/ V_Start
    \/ B_AttemptFails
    \/ V_Retry

SpecBackoff == InitBackoff /\ [][NextBackoff]_vars

NextWalk ==
    \/ W_Arm
    \/ W_Wake
    \/ W_UpdateOk
    \/ W_UpdateErr
    \/ W_Loop
    \/ W_GetLastOk
    \/ W_GetLastErr
    \/ W_FetchOk
    \/ W_FetchErr
    \/ W_Shards
    \/ W_ShardsErr
    \/ W_Finish
    \/ N_Shards
    \/ \E wc \in Workchains, a \in Addrs : subscribe(wc, a)
    \/ \E c \in ChanIds : DropReceiver(c)

SpecWalk == Init /\ [][NextWalk]_vars

\* a pass has read the target block: every timing and option within the bounds
TimelineInputs ==
    [round_end : U32, elections_start_before : 0..MaxBefore,
     elections_end_before : 0..MaxBefore, now : U32]

InitTimeline ==
    /\ InitEngine
    /\ InitConfig
    /\ \E m \in Modes, t \in TimelineInputs : InitSchedAt("timeline", m, t)
    /\ elections_start_offset \in 0..MaxOffset
    /\ elections_end_offset \in 0..MaxOffset
    /\ max_time_diff = 0
    /\ overflow_checks \in BOOLEAN

NextTimeline ==
    \/ T_Timeline
    \/ T_Wake
    \/ T_Elect

SpecTimeline == InitTimeline /\ [][NextTimeline]_vars

\* a pass starts: every max_time_diff within the bounds
InitSync ==
    /\ InitEngine
    /\ InitConfig
    /\ InitSchedAt("try", "none", NoTimings)
    /\ elections_start_offset = 2
    /\ elections_end_offset = 2
    /\ max_time_diff \in 0..MaxDiff
    /\ overflow_checks = FALSE

NextSync ==
    \/ T_Config
    \/ T_Stats
    \/ T_Synced
    \/ T_Target

SpecSync == InitSync /\ [][NextSync]_vars

TypeOK ==
    /\ subscription_count \in Int
    /\ wpc \in {"arm", "park", "update", "loop", "get_last", "fetch", "shards", "finish"}
    /\ signal \in {"none", "armed", "notified"}
    /\ \A s \in Senders :
          /\ spc[s] \in {"new", "build", "armed", "wait_step", "transmit", "wait_reply", "done"}
          /\ loop_works[s] \in {"none", "armed", "notified"}
          /\ attempts[s] \in 0..MaxAttempts


(***************************************************************************)
(* Claims about the subscription engine                                    *)
(***************************************************************************)
\* The pending message of sender s is in the map of its destination
Pending(s) ==
    \E m \in subscriptions[smsg[s].workchain][smsg[s].dst].pending_messages :
        m.hash = smsg[s].hash /\ m.tx = s

\* The message of sender s was inserted and its send_message has not returned
InFlight(s) == spc[s] \in {"armed", "wait_step", "transmit", "wait_reply"}

StoredIn(wc) ==
    SumOver([a \in Addrs |-> Cardinality(subscriptions[wc][a].pending_messages)
                             + Len(subscriptions[wc][a].transactions)], Addrs)

\* C1: in every reachable state subscription_count equals the number of pending
\* messages plus the number of stored transaction channels of both maps (and so
\* never wraps below zero).
C1_CountEqualsStored ==
    subscription_count = StoredIn(MASTERCHAIN_ID) + StoredIn(BASE_WORKCHAIN_ID)


\* C2: a sender hands its message to the node only after a loop-step pulse that
\* happened after the insertion of the message, and once such a pulse happened
\* the sender's wait is ready, whether it was polled before the pulse or not
\* (a pulse between the insertion and the first poll is not lost).
C2_SendBarrier ==
    \A s \in Senders :
        /\ h_sent[s] # "before_pulse"
        /\ (spc[s] \in {"armed", "wait_step"} /\ h_pulsed[s]) => poll_notified(loop_works[s])

\* C2 witness: one sender has transmitted after a pulse while another one, not
\* polled yet, has its pulse waiting for it
C2_Witness ==
    \E s, t \in Senders :
        /\ spc[s] = "wait_reply" /\ h_sent[s] = "after_pulse"
        /\ spc[t] = "armed" /\ h_pulsed[t] /\ loop_works[t] = "notified"

\* The transactions of block `block` for the message of sender s
ReplyTxs(block, s) ==
    {tx \in Range(block[smsg[s].dst]) : tx.in_msg = smsg[s].hash}

\* In this step the walker processes a block of the sender's workchain that
\* holds the transaction tx
Processes(s, tx) ==
    \/ /\ wpc = "shards" /\ wpc' = "finish"
       /\ smsg[s].workchain = BASE_WORKCHAIN_ID
       /\ \E i \in DOMAIN next_mc_block.shard_blocks :
             tx \in ReplyTxs(next_mc_block.shard_blocks[i], s)
    \/ /\ wpc = "finish" /\ wpc' = "loop"
       /\ smsg[s].workchain = MASTERCHAIN_ID
       /\ tx \in ReplyTxs(next_mc_block.mc_block, s)

AllTxs ==
    [workchain : Workchains, account : Addrs, in_msg : Hashes, seq_no : 1..(MaxTime + 2)]

\* C3: when a message was registered and transmitted and the walker then
\* processes a block with a transaction of the destination account whose inbound
\* message hash is the registered one, the entry still pending, the entry is
\* removed, the reply channel holds that transaction, and send_message returns it.
C3_MatchDelivers ==
    [][\A s \in Senders :
          /\ \A tx \in AllTxs :
                (spc[s] = "wait_reply" /\ Pending(s) /\ Processes(s, tx))
                    => (~Pending(s)' /\ reply'[s] = <<SomeValue(tx)>>)
          /\ (spc[s] = "wait_reply" /\ reply[s] # <<>> /\ Head(reply[s]).some
                /\ spc'[s] # spc[s])
                => (spc'[s] = "done" /\ sresult'[s] = Result("some", Head(reply[s]).tx))
      ]_vars

\* C3 witness: a send_message returned the transaction of its message
C3_Witness ==
    \E s \in Senders :
        /\ spc[s] = "done"
        /\ sresult[s].kind = "some"
        /\ sresult[s].tx.in_msg = smsg[s].hash
        /\ sresult[s].tx.account = smsg[s].dst

\* The walker ends a step whose masterchain block has generation time u, and no
\* block it processes in this action holds the reply of sender s
EndsStepWithout(s, u) ==
    /\ wpc = "finish" /\ wpc' = "loop"
    /\ next_mc_block.gen_utime = u
    /\ ~(smsg[s].workchain = MASTERCHAIN_ID /\ ReplyTxs(next_mc_block.mc_block, s) # {})

\* C4: when a message is pending with expire_at = t and the walker completes a
\* step whose masterchain block has a generation time above t without the reply
\* transaction, GC removes the entry and the reply channel holds None; the
\* send_message waiting for it returns None and send_message_with_retires goes
\* on to build the next message instead of returning.
C4_Expiry ==
    [][\A s \in Senders :
          /\ \A u \in Times :
                (InFlight(s) /\ Pending(s) /\ smsg[s].expire_at < u /\ EndsStepWithout(s, u))
                    => (~Pending(s)' /\ reply'[s] = <<NoneValue>>)
          /\ (spc[s] = "wait_reply" /\ reply[s] # <<>> /\ ~Head(reply[s]).some
                /\ spc'[s] # spc[s])
                => (spc'[s] = "build" /\ sresult'[s] = Result("expired", NoTx))
          /\ (spc[s] = "build" /\ sresult[s].kind = "expired" /\ spc'[s] # spc[s])
                => (attempts'[s] = attempts[s] + 1 /\ spc'[s] \in {"armed", "done"})
      ]_vars

\* C4 witness: a message expired in GC, its sender got None and has inserted the
\* next message
C4_Witness ==
    \E s \in Senders :
        /\ sresult[s].kind = "expired"
        /\ attempts[s] = 2
        /\ spc[s] = "armed"
        /\ Pending(s)

\* C5: there is no reachable state in which a sender waits on its reply channel,
\* its entry pending, while the walker is parked on the subscriptions-changed
\* signal with no pulse to wake it (so that every inserted send_message returns).
C5_NoSenderLeftWaiting ==
    ~(\E s \in Senders :
         /\ spc[s] = "wait_reply"
         /\ Pending(s)
         /\ wpc = "park"
         /\ signal # "notified")

\* The current reply channel of sender s was created by an insertion
Inserted(s) ==
    \/ InFlight(s)
    \/ sresult[s].kind \in {"some", "expired", "err_transmit"}

\* C6: the reply channel of every pending message ever inserted receives exactly
\* one value: none while the message is in the map, one (Some from process_block
\* or None from the drop of the record) once it is out of it, never two.
C6_ExactlyOneReply ==
    \A s \in Senders :
        /\ Len(reply[s]) <= 1
        /\ InFlight(s) => (Pending(s) <=> reply[s] = <<>>)
        /\ (Inserted(s) /\ ~InFlight(s)) => Len(reply[s]) = 1

\* C6 witness: one reply channel got Some from process_block, another one None
\* from the drop of its record
C6_Witness ==
    \E s, t \in Senders :
        /\ Inserted(s) /\ reply[s] # <<>> /\ Head(reply[s]).some
        /\ Inserted(t) /\ reply[t] = <<NoneValue>>

(***************************************************************************)
(* Claims about the election scheduler and the retry envelope              *)
(***************************************************************************)
\* C7: whenever a stake-recovery, add_ordinary_stake or participate wallet call
\* of the scheduler is in flight, the scheduler holds the shutdown guard; the
\* guard was held before the call started, and it is given up only in a step
\* that ends the call (its return, or the drop of the routine).
C7_GuardHeldDuringCalls ==
    [][/\ call' \in GuardedCalls => guard' = "scheduler"
       /\ (call \notin GuardedCalls /\ call' \in GuardedCalls) => guard = "scheduler"
       /\ (call \in GuardedCalls /\ guard' # "scheduler") => call' = "none"]_vars

\* C7 witness: a stake addition is in flight under the guard while the signal
\* task waits for the guard
C7_Witness ==
    /\ call = "add_ordinary_stake"
    /\ guard = "scheduler"
    /\ sigpc = "locking"

\* C8: when the scheduler is cancelled by a termination signal none of its
\* wallet calls is in flight, so that the drop of the scheduler abandons none.
C8_NoCallAbandoned ==
    /\ (cancelled /\ run_result = "running") => call = "none"
    /\ abandoned = "none"

\* C9 as the spec states it: once an attempt has returned a fatal error the
\* retry envelope starts no further attempt.
C9_FatalEndsRetries ==
    [][last_error = "fatal" => tries' = tries]_vars

\* C9: an error returned by an attempt, fatal or not, does not end the retry
\* loop: the attempt is left only for the envelope's sleep (or by cancellation),
\* the sleep is left only for the next attempt (or by cancellation), and run
\* returns nothing but Ok, and only after the cancellation by a signal.
C9_ErrorsAreRetried ==
    [][/\ (epc \in PassPcs \cup ElectPcs
             /\ epc' \notin PassPcs \cup ElectPcs \cup {"pass_sleep"})
             => \/ epc' = "retry_sleep" /\ run_result' = "running"
                \/ epc' = "dropped" /\ cancelled
       /\ (epc = "retry_sleep" /\ epc' # "retry_sleep")
             => \/ epc' = "try" /\ tries' = tries + 1
                \/ epc' = "dropped" /\ cancelled
       /\ run_result' # "running" => (run_result' = "ok" /\ cancelled')]_vars

\* C9 witness: a new attempt runs after an attempt that returned a fatal error
C9_Witness ==
    /\ last_error = "fatal"
    /\ tries >= 2
    /\ epc \in ElectPcs
    /\ run_result = "running"

\* the product interval * multiplier, rounded down to whole seconds and capped
BackoffLaw(i) ==
    IF retry_interval_multiplier = Infinity THEN max_retry_interval
    ELSE Min(max_retry_interval, (i * retry_interval_multiplier) \div 2)

\* C10: after every failed attempt the retry interval becomes
\* min(max_retry, interval * multiplier), taken in whole seconds, and is not
\* less than the interval before, for every interval and admissible multiplier.
C10_BackoffLaw ==
    [][(epc = "retry_sleep" /\ epc' = "try")
           => /\ interval' = BackoffLaw(interval)
              /\ interval' >= interval]_vars

(***************************************************************************)
(* Claims about the timeline and the passes of try_validate                *)
(***************************************************************************)
\* Timeline::compute has run on the timings of the pass
Computed == timeline.kind # "none" /\ timeline = compute(timings)

\* C11: when the window is not empty (elections_start < elections_end), the
\* phase computed at now = elections_start is Elections with
\* since_elections_start = 0, not BeforeElections.
C11_StartIsElections ==
    (/\ Computed
     /\ elections_start(timings) < elections_end(timings)
     /\ timings.now = elections_start(timings))
    => (timeline.kind = "Elections" /\ timeline.since_elections_start = 0)

\* C12: the phase computed at now = elections_end is AfterElections with
\* until_round_end = round_end - now (saturating), not Elections; Elections is
\* the phase only while now < elections_end.
C12_EndIsAfterElections ==
    Computed =>
        /\ timings.now = elections_end(timings)
              => /\ timeline.kind = "AfterElections"
                 /\ timeline.until_round_end = saturating_sub(timings.round_end, timings.now)
        /\ timeline.kind = "Elections" => timings.now < elections_end(timings)

\* The pass has made no wallet call and holds no elector data
Quiet == call = "none" /\ h_made = {} /\ elector_data = NoElectorData

\* The step that computes and matches the timeline of a pass, and the step at
\* the top of the pass after it
Dispatches == epc = "timeline" /\ timeline' # timeline
Wakes == epc = "pass_sleep" /\ epc' = "try"

\* now is before elections_start, and the phase is BeforeElections(elections_start - now)
BeforePhase ==
    /\ timings.now < elections_start(timings)
    /\ timeline' = Phase("BeforeElections", elections_start(timings) - timings.now, 0, 0, 0, 0)

\* C13 as stated: whenever now is strictly before elections_start the phase is
\* BeforeElections(elections_start - now), and the scheduler then sleeps exactly
\* until_elections_start + elections_start_offset seconds and restarts the pass
\* without reading elector data or making a wallet call.
C13_SleepsExactly ==
    [][/\ (Dispatches /\ timings.now < elections_start(timings))
            => BeforePhase /\ epc' = "pass_sleep" /\ Quiet'
       /\ (Wakes /\ timeline.kind = "BeforeElections")
            => /\ h_slept' = timeline.until_elections_start + elections_start_offset
               /\ Quiet']_vars

\* C13, amended: whenever now is strictly before elections_start the phase is
\* BeforeElections(elections_start - now); the interval of the pass becomes
\* until_elections_start + elections_start_offset in u32 arithmetic (a sum above
\* u32::MAX panics in a build with overflow checks and wraps in one without);
\* the scheduler then sleeps max(interval, 10) seconds, or not at all when the
\* interval is zero, and restarts the pass without reading elector data or making
\* a wallet call.
C13_SleepsFloored ==
    [][/\ (Dispatches /\ timings.now < elections_start(timings))
            => /\ BeforePhase
               /\ LET sum == elections_start(timings) - timings.now + elections_start_offset
                  IN IF sum > U32_MAX /\ overflow_checks
                     THEN run_result' = "panic"
                     ELSE /\ epc' = "pass_sleep"
                          /\ t_interval' = sum % (U32_MAX + 1)
                          /\ Quiet'
       /\ (Wakes /\ timeline.kind = "BeforeElections")
            => /\ h_slept' = IF t_interval = 0 THEN 0
                             ELSE IF t_interval < PASS_SLEEP_FLOOR THEN PASS_SLEEP_FLOOR
                             ELSE t_interval
               /\ Quiet']_vars

\* A pass before the elections has slept the floor instead of a shorter interval
C13_Witness ==
    /\ epc = "try"
    /\ timeline.kind = "BeforeElections"
    /\ timings.now < elections_start(timings)
    /\ timeline.until_elections_start + elections_start_offset < PASS_SLEEP_FLOOR
    /\ h_slept = PASS_SLEEP_FLOOR
    /\ Quiet

\* The phase tl is Elections, past the start offset and not within the end offset
InWindow(tl) ==
    /\ tl.kind = "Elections"
    /\ tl.since_elections_start > elections_start_offset
    /\ tl.until_elections_end > elections_end_offset

TooEarly(tl) ==
    tl.kind = "Elections" /\ tl.since_elections_start <= elections_start_offset

TooLate(tl) ==
    /\ tl.kind = "Elections"
    /\ tl.since_elections_start > elections_start_offset
    /\ tl.until_elections_end <= elections_end_offset

\* The elector's data is read and a mode routine entered only in the window; out
\* of it the pass ends with the remainder of the margin as its interval and
\* without a wallet call
Gating ==
    /\ (Dispatches /\ epc' = "elector") => InWindow(timeline')
    /\ \/ elector_data' \notin {elector_data, NoElectorData}
       \/ epc' \in ElectPcs /\ epc \notin ElectPcs
       => epc = "elector" /\ InWindow(timeline)
    /\ (Dispatches /\ TooEarly(timeline'))
         => /\ epc' = "pass_sleep"
            /\ t_interval' = elections_start_offset - timeline'.since_elections_start
            /\ Quiet'
    /\ (Dispatches /\ TooLate(timeline'))
         => /\ epc' = "pass_sleep"
            /\ t_interval' = elections_end_offset - timeline'.until_elections_end
            /\ Quiet'
    /\ (Dispatches /\ timeline'.kind \in {"BeforeElections", "AfterElections"})
         => epc' # "elector" /\ Quiet'

\* C15 as stated: the scheduler reads elector data and enters a mode routine
\* only when the phase is Elections with since_elections_start past
\* elections_start_offset and until_elections_end not closer than
\* elections_end_offset; too early it sleeps the remainder of the start offset,
\* too late it sleeps and restarts, and in both cases and before and after the
\* elections no wallet call is made in that pass.
C15_SleepsRemainder ==
    [][/\ Gating
       /\ (Wakes /\ timeline.kind # "none" /\ ~InWindow(timeline)) => Quiet'
       /\ (Wakes /\ TooEarly(timeline))
            => h_slept' = elections_start_offset - timeline.since_elections_start]_vars

\* C15, amended: the same gating, with the sleep as the top of the pass makes
\* it: too early the interval is the remainder of the start offset, too late the
\* remainder of the end offset, and the scheduler sleeps max(interval, 10)
\* seconds, or not at all when the interval is zero, before the pass restarts.
C15_WindowGating ==
    [][/\ Gating
       /\ (Wakes /\ timeline.kind # "none" /\ ~InWindow(timeline)) => Quiet'
       /\ (Wakes /\ (TooEarly(timeline) \/ TooLate(timeline)))
            => h_slept' = IF t_interval = 0 THEN 0
                          ELSE IF t_interval < PASS_SLEEP_FLOOR THEN PASS_SLEEP_FLOOR
                          ELSE t_interval]_vars

\* A pass that came too early has slept and restarted without a wallet call
C15_Witness ==
    /\ epc = "try"
    /\ TooEarly(timeline)
    /\ elections_start_offset - timeline.since_elections_start > 0
    /\ h_slept = PASS_SLEEP_FLOOR
    /\ Quiet

\* wait_until_synced returns
LeavesSync == epc = "sync_check" /\ epc' = "config"

\* The node runs with a masterchain time drift below max(max_time_diff, 5)
McSynced ==
    /\ stats.running
    /\ stats.mc_time_diff < (IF max_time_diff < MIN_TIME_DIFF THEN MIN_TIME_DIFF
                              ELSE max_time_diff)

ScSynced ==
    stats.sc_time_diff < (IF max_time_diff < MIN_TIME_DIFF THEN MIN_TIME_DIFF
                          ELSE max_time_diff)

\* C14 as stated: the scheduler leaves the node-sync phase only when the node
\* reports running stats with a masterchain time drift below
\* max(max_time_diff, 5), and in Single mode only when the shard time drift is
\* below the same bound as well.
C14_SingleNeedsShards ==
    [][LeavesSync => McSynced /\ (mode = "single" => ScSynced)]_vars

\* C14, amended: the scheduler leaves the node-sync phase only when the node
\* reports running stats with a masterchain time drift below
\* max(max_time_diff, 5); in DePool mode only when the shard time drift is below
\* the same bound as well, while in Single mode the shard drift is not looked at.
C14_DePoolNeedsShards ==
    [][/\ LeavesSync => McSynced /\ (mode = "depool" => ScSynced)
       /\ (epc = "sync_check" /\ McSynced /\ mode = "single") => epc' # "sync"]_vars

\* Single mode has left the sync phase with a shard drift at or above the bound
C14_Witness ==
    /\ epc = "config"
    /\ mode = "single"
    /\ McSynced
    /\ ~ScSynced

(***************************************************************************)
(* Claims about the elect routines                                         *)
(***************************************************************************)
\* The Single routine runs on a snapshot that lists the wallet as elected
SingleElected == epc \in SinglePcs /\ "wallet" \in elector_data.elected

\* The routine's test of the elected wallet is made: the routine returns Ok(())
ReturnsAtElected ==
    (epc = "s_elected" /\ Running /\ epc' # epc /\ outcome' # "deadline")
        => epc' = "pass_sleep" /\ outcome' = "ok" /\ call' = "none"

\* C16 as stated: whenever the elector data snapshot lists the wallet as
\* elected, the Single routine returns success without making any wallet call,
\* that is without any increment of subscription_count.
C16_ElectedNoCall ==
    [][SingleElected => call' = "none" /\ h_made' = {} /\ ReturnsAtElected]_vars

\* C16, amended: on a snapshot that lists the wallet as elected the Single
\* routine never sends a participate message and returns success at its elected
\* test; it makes no wallet call at all when the snapshot shows no unfrozen stake
\* of the wallet, and with an unfrozen stake it makes the recover_stake call, and
\* only that one, before the elected test.
C16_ElectedAfterRecover ==
    [][/\ SingleElected => ReturnsAtElected /\ h_made' \subseteq {"recover_stake"}
       /\ (SingleElected /\ ~elector_data.unfrozen) => call' = "none" /\ h_made' = {}
       /\ (epc \in SinglePcs /\ epc # "s_elected" /\ epc' = "s_elected")
            => (elector_data.unfrozen <=> "recover_stake" \in h_made')]_vars

\* The Single routine has returned on an elected wallet without a wallet call
C16_Witness ==
    /\ epc = "pass_sleep"
    /\ outcome = "ok"
    /\ mode = "single"
    /\ elector_data.election_id # 0
    /\ "wallet" \in elector_data.elected
    /\ ~elector_data.unfrozen
    /\ h_made = {}

\* The DePool routine is past update_depool and makes its tests of the round
TestsRound == epc = "d_step" /\ Running /\ epc' # epc /\ outcome' # "deadline"

\* The routine returns Ok(()) and has not sent a participate message
ReturnsUnsent ==
    /\ epc' = "pass_sleep"
    /\ outcome' = "ok"
    /\ call' = "none"
    /\ "participate" \notin h_made'

\* C17: whenever update_depool returns a step of the target round other than
\* WaitingValidatorRequest, the DePool routine returns success without building
\* or sending a participate message, even with an election id; and when the step
\* is WaitingValidatorRequest but the proxy proxies[round_id mod 2] is already
\* elected, it returns success without sending as well.
C17_NotReadyNoParticipate ==
    [][/\ (TestsRound /\ target_round.step # "WaitingValidatorRequest") => ReturnsUnsent
       /\ (TestsRound /\ target_round.step = "WaitingValidatorRequest"
              /\ (IF target_round.id % 2 = 0 THEN "proxy0" ELSE "proxy1")
                     \in elector_data.elected)
            => ReturnsUnsent
       /\ (epc \in DePoolPcs /\ "participate" \in h_made')
            => /\ target_round.step = "WaitingValidatorRequest"
               /\ (IF target_round.id % 2 = 0 THEN "proxy0" ELSE "proxy1")
                     \notin elector_data.elected]_vars

\* The DePool routine has returned on a completed round, with an election id
C17_Witness ==
    /\ epc = "pass_sleep"
    /\ outcome = "ok"
    /\ mode = "depool"
    /\ elector_data.election_id # 0
    /\ target_round.step = "Completed"
    /\ "participate" \notin h_made

(***************************************************************************)
(* Claims about the pending messages and the cached block                  *)
(***************************************************************************)
\* The pending messages of each account hold each hash once: one record, one
\* reply channel, one sender
OnePerHash(subs) ==
    \A wc \in Workchains, a \in Addrs :
        \A m1, m2 \in subs[wc][a].pending_messages : m1.hash = m2.hash => m1 = m2

\* send_message of sender s finds the hash of its message pending
SendsDuplicate(s) ==
    /\ spc[s] = "build"
    /\ spc'[s] # "build"
    /\ \E m \in subscriptions[smsg'[s].workchain][smsg'[s].dst].pending_messages :
          m.hash = smsg'[s].hash

\* C18: every pending message of either map has at most one sender awaiting it:
\* a send_message with the destination and hash of a message still pending fails
\* with an error, leaves the entry and its reply channel untouched and leaves
\* subscription_count unchanged.
C18_OneSenderPerMessage ==
    [][/\ OnePerHash(subscriptions')
       /\ \A s \in Senders :
             SendsDuplicate(s)
                => /\ spc'[s] = "done"
                   /\ sresult'[s].kind = "err_already_sent"
                   /\ subscriptions' = subscriptions
                   /\ reply' = reply
                   /\ subscription_count' = subscription_count]_vars

\* A sender was refused the hash another sender still waits on
C18_Witness ==
    \E s, t \in Senders :
        /\ s # t
        /\ spc[s] = "done"
        /\ sresult[s].kind = "err_already_sent"
        /\ smsg[s] = smsg[t]
        /\ Pending(t)
        /\ InFlight(t)
        /\ reply[t] = <<>>

\* The walker's step makes its GC pass, with the clock next_mc_block.gen_utime
CollectsGarbage == wpc = "finish" /\ wpc' = "loop"

AllPending(subs) ==
    UNION {subs[wc][a].pending_messages : wc \in Workchains, a \in Addrs}

AllStored(subs) ==
    SumOver([wc \in Workchains |->
                SumOver([a \in Addrs |-> Cardinality(subs[wc][a].pending_messages)
                                          + Len(subs[wc][a].transactions)], Addrs)],
            Workchains)

\* The masterchain block of the step holds the reply to the pending message m
AnsweredInStep(m) ==
    \E wc \in Workchains, a \in Addrs :
        /\ wc = MASTERCHAIN_ID
        /\ m \in subscriptions[wc][a].pending_messages
        /\ \E tx \in Range(next_mc_block.mc_block[a]) : tx.in_msg = m.hash

\* C19: after every GC pass with the clock u, the generation time of the next
\* masterchain block, no pending message with expire_at < u remains in the maps;
\* each removed message decrements subscription_count by one and its sender
\* receives None; the messages with expire_at >= u are kept.
C19_GcRemovesExpired ==
    [][CollectsGarbage =>
          LET u == next_mc_block.gen_utime
          IN /\ \A m \in AllPending(subscriptions') : m.expire_at >= u
             /\ \A m \in AllPending(subscriptions) :
                   /\ (m.expire_at >= u /\ ~AnsweredInStep(m))
                        => m \in AllPending(subscriptions')
                   /\ (m.expire_at < u /\ ~AnsweredInStep(m))
                        => reply'[m.tx] = <<NoneValue>>
             /\ subscription_count - subscription_count'
                   = AllStored(subscriptions) - AllStored(subscriptions')]_vars

\* A GC pass has removed an expired message, whose sender holds None, and has
\* kept a message that had not expired
C19_Witness ==
    \E s, t \in Senders :
        /\ wpc = "loop"
        /\ InFlight(s)
        /\ ~Pending(s)
        /\ smsg[s].expire_at < last_mc_block.gen_utime
        /\ reply[s] = <<NoneValue>>
        /\ InFlight(t)
        /\ Pending(t)
        /\ smsg[t].expire_at >= last_mc_block.gen_utime

\* C20: whenever a last masterchain block is cached, its shards edge has an
\* entry for every shard the block references, equal to the sequence number of
\* the referenced shard block, whether update_last_mc_block or a step of the
\* walker filled the cache.
C20_EdgeCoversShards ==
    last_mc_block # NoBlock =>
        /\ DOMAIN last_mc_block.shards_edge = DOMAIN last_mc_block.shards
        /\ \A sh \in DOMAIN last_mc_block.shards :
              /\ last_mc_block.shards[sh].shard_id = sh
              /\ last_mc_block.shards_edge[sh] = last_mc_block.shards[sh].seq_no

\* The cache holds a block that references two shards at different heights
C20_Witness ==
    /\ last_mc_block # NoBlock
    /\ wpc = "loop"
    /\ last_mc_block.seq_no = 3
    /\ DOMAIN last_mc_block.shards = {"left", "right"}
    /\ last_mc_block.shards_edge["left"] # last_mc_block.shards_edge["right"]

(***************************************************************************)
(* Claims about the walker's steps                                         *)
(***************************************************************************)
\* The message of sender s is in the map and no step of the walker has begun
\* since its insertion
AwaitsStep(s) == spc[s] \in {"armed", "wait_step"} /\ Pending(s) /\ ~h_pulsed[s]

\* The walker is parked on the subscriptions-changed signal and nothing has
\* pulsed it
ParkedForGood == wpc = "park" /\ signal # "notified"

\* C21: no wake-up is lost: after a sender inserts a pending message the walker
\* begins a step that starts after the insertion, so that in no reachable state
\* an inserted message still waits for such a step while the walker is parked
\* on the subscriptions-changed signal with no pulse to wake it.
C21_NoLostWakeup ==
    \A s \in Senders : AwaitsStep(s) => ~ParkedForGood

\* The transmit of sender s returns an error and its send_message returns
TransmitFails(s) == spc[s] = "transmit" /\ spc'[s] = "done"

\* C22: when the transmit of a registered message returns an error,
\* send_message returns that error and afterwards the hash of the message is
\* absent from the pending map, an account entry left empty is removed, and
\* subscription_count has been decremented exactly once for that message: by
\* the failed call if the message was still pending, by the walker if it had
\* removed the message during the transmit.
C22_TransmitErrCleanup ==
    [][\A s \in Senders :
          TransmitFails(s) =>
              LET entry == subscriptions'[smsg[s].workchain][smsg[s].dst]
              IN /\ sresult'[s].kind = "err_transmit"
                 /\ \A m \in entry.pending_messages : m.hash # smsg[s].hash
                 /\ entry.present => ~is_empty(entry)
                 /\ subscription_count' =
                       subscription_count - (IF Pending(s) THEN 1 ELSE 0)]_vars

\* C23: within one step of the walker the shard blocks and then the next
\* masterchain block are processed before GC: a pending message whose reply
\* transaction is in a block processed in the step is delivered
\* Some(transaction), and the GC of the step sends it no None, even when its
\* expire_at is below the generation time of the step's masterchain block.
C23_ProcessedBeforeGc ==
    [][\A s \in Senders :
          /\ (/\ wpc \in {"shards", "finish"}
              /\ InFlight(s)
              /\ Pending(s)
              /\ smsg[s].expire_at < next_mc_block.gen_utime)
                => \A tx \in AllTxs :
                      Processes(s, tx) => (~Pending(s)' /\ reply'[s] = <<SomeValue(tx)>>)
          /\ (CollectsGarbage /\ reply[s] # <<>> /\ Head(reply[s]).some)
                => reply'[s] = reply[s]
      ]_vars

\* A step has delivered the transaction of a masterchain message that had
\* expired by the generation time of the step's masterchain block
C23_Witness ==
    \E s \in Senders :
        /\ wpc = "loop"
        /\ InFlight(s)
        /\ smsg[s].workchain = MASTERCHAIN_ID
        /\ smsg[s].expire_at < last_mc_block.gen_utime
        /\ reply[s] # <<>>
        /\ Head(reply[s]).some
        /\ Head(reply[s]).tx.in_msg = smsg[s].hash
        /\ Head(reply[s]).tx.seq_no = last_mc_block.seq_no

\* A step of the walker (make_blocks_step) runs, ends with Ok, ends with Err
StepPcs == {"get_last", "fetch", "shards", "finish"}
StepSucceeds == wpc = "finish" /\ wpc' = "loop"
StepFails == wpc \in {"get_last", "fetch", "shards"} /\ wpc' = "loop"

\* The cache holds the successor of the block it held, with the edge of the
\* successor's shard references
SuccessorStored ==
    /\ next_mc_block.seq_no = last_mc_block.seq_no + 1
    /\ last_mc_block' =
          [seq_no |-> last_mc_block.seq_no + 1,
           gen_utime |-> next_mc_block.gen_utime,
           shards |-> next_mc_block.shards,
           shards_edge |-> [sh \in DOMAIN next_mc_block.shards |->
                               next_mc_block.shards[sh].seq_no]]

\* The cached sequence number never decreases, and it moves by more than one
\* only in the update the walker makes after it found subscription_count zero
NoSkipWhileCounted ==
    /\ last_mc_block'.seq_no >= last_mc_block.seq_no
    /\ (last_mc_block # NoBlock /\ last_mc_block'.seq_no > last_mc_block.seq_no + 1)
          => wpc = "update"
    /\ (wpc' = "update" /\ wpc # "update") => wpc = "arm"
    /\ (wpc' = "arm" /\ wpc # "arm") => wpc = "park"
    /\ (wpc' = "park" /\ wpc # "park") => subscription_count = 0

\* C24 as stated: a successful step replaces the cached block by its immediate
\* successor with a new edge built from the successor's shard references, as
\* its last action, and a step that fails at any point leaves the cache
\* unchanged: a step writes the cache only with the store that ends it; so the
\* cached sequence number never decreases and never skips a block while
\* subscription_count stays above zero.
C24_FailedStepKeepsCache ==
    [][/\ StepSucceeds => SuccessorStored
       /\ StepFails => last_mc_block' = last_mc_block
       /\ (wpc \in StepPcs /\ last_mc_block' # last_mc_block) => StepSucceeds
       /\ NoSkipWhileCounted]_vars

\* C24, amended: a successful step replaces the cached block by its immediate
\* successor with a new edge built from the successor's shard references, as
\* its last action; the only other write of a step is at its start, when the
\* cache is empty and the step fills it with the node's last masterchain block,
\* and that block stays cached when the step fails afterwards; a failure itself
\* writes nothing; so the cached sequence number never decreases and never
\* skips a block while subscription_count stays above zero.
C24_StepAdvancesCache ==
    [][/\ StepSucceeds => SuccessorStored
       /\ StepFails => last_mc_block' = last_mc_block
       /\ (wpc \in StepPcs /\ last_mc_block' # last_mc_block /\ ~StepSucceeds)
             => (wpc = "get_last" /\ last_mc_block = NoBlock /\ wpc' = "fetch")
       /\ NoSkipWhileCounted]_vars

\* A step has failed after its fetch, and the cache holds the block it held
C24_Witness ==
    /\ wpc = "loop"
    /\ has_subscriptions
    /\ next_mc_block # NoNext
    /\ last_mc_block # NoBlock
    /\ next_mc_block.seq_no = last_mc_block.seq_no + 1

\* tx comes before ty on the chain of their account: in an earlier block, or
\* earlier in the same block
BeforeOnChain(tx, ty) ==
    \/ tx.seq_no < ty.seq_no
    \/ /\ tx.seq_no = ty.seq_no
       /\ "lt" \in DOMAIN tx /\ "lt" \in DOMAIN ty
       /\ tx.lt < ty.lt

\* C25: every channel of a subscriber receives the transactions of its account
\* in the order of the chain, none after one that follows it on the chain, over
\* any number of steps of the walker and any shard blocks between two
\* masterchain blocks
C25_ChainOrder ==
    \A c \in ChanIds :
        \A i, j \in DOMAIN chan_rx[c] :
            i < j => ~BeforeOnChain(chan_rx[c][j], chan_rx[c][i])

(***************************************************************************)
(* Claims about the passes of try_validate around the elect routine        *)
(***************************************************************************)
\* The elector's data is read, and the step that follows the read
ReadsElector == epc = "elector" /\ epc' \in {"pass_sleep"} \cup ElectPcs

\* The pass ended at the elector's data: it is in the window, and no routine ran
EndedWithoutId == epc = "pass_sleep" /\ InWindow(timeline) /\ outcome = "none"

\* Without an election id the pass ends there; no context is built, no routine
\* entered and no wallet call made
NoIdRestarts ==
    /\ (ReadsElector /\ elector_data'.election_id = 0)
         => /\ epc' = "pass_sleep"
            /\ t_interval' = 1
            /\ call' = "none" /\ h_made' = {} /\ guard' = guard
    /\ (ReadsElector /\ epc' \in ElectPcs) => elector_data'.election_id # 0
    /\ EndedWithoutId => elector_data.election_id = 0 /\ t_interval = 1 /\ h_made = {}

RoutineOver == epc \in ElectPcs /\ epc' \in {"pass_sleep", "retry_sleep"}

\* where the routines return Ok(())
OkReturns == {"s_elected", "s_elect_call", "d_step", "d_elect_call"}

\* the seconds from a reading of the clock to the nominal end of the elections
UntilNominalEnd == {saturating_sub(timeline.elections_end, n) : n \in WallClock}

\* The pass after a routine that ended, about to sleep
AfterRoutine == epc = "pass_sleep" /\ outcome # "none"

\* C27 as stated: after the mode routine of an attempt ends, whether by
\* success, by failure or by reaching the deadline, the scheduler sleeps until
\* the nominal elections_end and then continues its loop with a new pass.
C27_SleepsUntilEnd ==
    [][/\ RoutineOver => epc' = "pass_sleep" /\ t_interval' \in UntilNominalEnd
       /\ (AfterRoutine /\ Wakes) => h_slept' = t_interval]_vars

\* C27, amended: after the mode routine returns Ok or is dropped at the
\* deadline, the interval becomes elections_end - now (saturating) and the loop
\* continues with a new pass, whose top sleeps max(interval, 10) seconds and not
\* at all when the interval is 0; when the routine returns an error,
\* try_validate returns it at once, and the next attempt of the retry envelope
\* starts after the backoff interval, without a sleep until elections_end.
C27_SleepsAfterOkOrDeadline ==
    [][/\ (RoutineOver /\ epc' = "pass_sleep")
            => /\ outcome' \in {"ok", "deadline"}
               /\ outcome' = "ok" => epc \in OkReturns
               /\ t_interval' \in UntilNominalEnd
       /\ (RoutineOver /\ epc' = "retry_sleep")
            => /\ last_error' # "none"
               /\ UNCHANGED <<t_interval, h_slept, outcome>>
       /\ (AfterRoutine /\ Wakes)
            => h_slept' = IF t_interval = 0 THEN 0
                          ELSE IF t_interval < PASS_SLEEP_FLOOR THEN PASS_SLEEP_FLOOR
                          ELSE t_interval
       /\ (epc = "retry_sleep" /\ epc' = "try")
            => t_interval' = 0 /\ h_slept' = h_slept]_vars

\* A routine sent its election request and returned, and the next pass slept
C27_Witness ==
    /\ epc = "try"
    /\ elector_data.election_id # 0
    /\ "participate" \in h_made
    /\ h_slept = PASS_SLEEP_FLOOR
    /\ t_interval = PASS_SLEEP_FLOOR

\* The elect routine starts under its timeout, and the timeout ends it
EntersRoutine == epc = "elector" /\ epc' \in ElectPcs
DeadlineElapses == epc \in ElectPcs /\ epc' = "pass_sleep" /\ outcome' = "deadline"

\* the deadline as the claim words it, for a reading n of the clock
ClaimedDeadline(n) ==
    LET until == IF timeline.elections_end > elections_end_offset
                 THEN timeline.elections_end - elections_end_offset ELSE 0
    IN IF until > n THEN until - n ELSE 0

\* C28: the mode routine runs for at most elections_end - elections_end_offset
\* - now seconds, saturating at 0; when the deadline elapses the routine is
\* dropped, the shutdown guard it holds is released, the outcome is not an
\* error, and no wallet call of the routine is started or continued after it.
C28_ElectionDeadline ==
    [][/\ EntersRoutine
            => /\ \E n \in WallClock : timeout'.deadline = ClaimedDeadline(n)
               /\ timeout'.elapsed = 0
       /\ epc \in ElectPcs => timeout.elapsed <= timeout.deadline
       /\ (epc \in ElectPcs /\ epc' \in ElectPcs)
            => /\ timeout'.deadline = timeout.deadline
               /\ timeout'.elapsed >= timeout.elapsed
       /\ DeadlineElapses
            => /\ timeout.elapsed = timeout.deadline
               /\ guard' # "scheduler"
               /\ guard = "scheduler" => guard' = "free"
               /\ call' = "none"
               /\ run_result' = "running" /\ last_error' = last_error
       /\ (epc \notin ElectPcs /\ epc' \notin ElectPcs)
            => call' = "none" /\ guard' # "scheduler" /\ h_made' \subseteq h_made]_vars

\* The deadline ended a routine that held the guard for its election request
C28_Witness ==
    /\ epc = "pass_sleep"
    /\ outcome = "deadline"
    /\ "participate" \in h_made
    /\ guard = "free"
    /\ call = "none"

(***************************************************************************)
(* Claims about update_depool and the election request                     *)
(***************************************************************************)
\* update_depool runs, and the number of the evaluation of the rounds it is at
UpdatePcs == {"d_update", "d_stake_balance", "d_lock_stake", "d_stake", "d_stake_call",
              "d_round", "d_ticktock_call", "d_refresh"}
Evaluation == UPDATE_ATTEMPTS - update_attempts + 1

\* the target round is tested: the step out of "d_round" that the routine makes
TestsTarget == epc = "d_round" /\ epc' \in {"d_step", "d_ticktock_call", "retry_sleep"}

\* C29: update_depool evaluates the pool rounds at most 4 times; it returns the
\* target round at the first evaluation that finds it configured, otherwise it
\* sends a ticktock, sleeps and refreshes the pool state before the next
\* evaluation, and it fails once the attempts are exhausted, never looping a
\* fifth time.
C29_UpdateDepoolBounded ==
    [][/\ epc \in UpdatePcs =>
            Evaluation \in 1..4 /\ (epc \in {"d_ticktock_call", "d_refresh"} => Evaluation > 1)
       /\ (epc = "d_start" /\ epc' = "d_update") => Evaluation' = 1
       /\ (TestsTarget /\ epc' = "d_step")
            => target_round' # NoRound /\ call' = "none" /\ h_made' = h_made
       /\ (TestsTarget /\ epc' = "d_ticktock_call")
            => /\ Evaluation < 4
               /\ Evaluation' = Evaluation + 1
               /\ call' = "ticktock"
       /\ (TestsTarget /\ epc' = "retry_sleep")
            => Evaluation = 4 /\ last_error' # "none" /\ call' = "none"
       /\ (TestsTarget /\ Evaluation = 4) => epc' # "d_ticktock_call"
       /\ (epc' = "d_update" /\ epc # "d_update") => epc \in {"d_start", "d_refresh"}
       /\ (epc' = "d_refresh" /\ epc # "d_refresh")
            => epc = "d_ticktock_call" /\ call' = "none"
       /\ (epc \in UpdatePcs /\ epc' \in UpdatePcs) => Evaluation' >= Evaluation]_vars

\* The fourth evaluation of the rounds, after three ticktocks
C29_Witness ==
    /\ epc = "d_round"
    /\ Evaluation = 4
    /\ "ticktock" \in h_made
    /\ call = "none"

\* wallet.call(participate_in_elections) starts, and the one it is sent for
StartsParticipate == call # "participate" /\ call' = "participate"
Submitter == IF is_single(mode) THEN "wallet" ELSE proxy_of(target_round.id)

\* C30: once a participate_in_elections call of the scheduler has completed and
\* the elector lists the wallet or the proxy as a participant of the election,
\* no later pass or attempt sends another participate_in_elections message for
\* that election; and every such message is sent under the shutdown guard.
C30_AtMostOnceSubmission ==
    [][/\ StartsParticipate
            => /\ Listed(mode) = {}
               /\ guard = "scheduler" /\ guard' = "scheduler"
       /\ call = "participate" => guard = "scheduler"
       /\ participants' # participants
            => /\ call = "participate" /\ call' = "none"
               /\ participants' = participants \cup {Submitter}
               /\ outcome' = "ok"]_vars

\* A later pass of the mode found its participant listed and returned Ok
\* without a wallet call
C30_Witness ==
    /\ epc = "pass_sleep"
    /\ outcome = "ok"
    /\ elector_data.election_id # 0
    /\ Listed(mode) # {}
    /\ Listed(mode) \subseteq elector_data.elected
    /\ h_made = {}

(***************************************************************************)
(* Claims about the retry envelope, the walker's shard blocks and the      *)
(* shutdown                                                                *)
(***************************************************************************)
\* The options as validation_fut has normalised them
Normalised ==
    /\ min_retry_interval >= 1
    /\ max_retry_interval >= min_retry_interval
    /\ retry_interval_multiplier = Infinity \/ retry_interval_multiplier >= 2

\* C31: after normalisation the sleep between attempts of the retry envelope is
\* always within [min_retry, max_retry], the first sleep equals min_retry, and
\* the interval is never reset or lowered.
C31_RetryIntervalBounds ==
    [][/\ epc # "init" => Normalised
       /\ epc = "retry_sleep"
            => /\ min_retry_interval <= interval
               /\ interval <= max_retry_interval
       /\ (epc = "retry_sleep" /\ tries = 1) => interval = min_retry_interval
       /\ epc # "init" => interval' >= interval]_vars

\* the blocks of the chain from which the blocks `ids` descend, those included
RECURSIVE UpTo(_, _)
UpTo(chain, ids) ==
    LET more == {b.prev1 : b \in {x \in chain : x.id \in ids}}
                \cup {b.prev2 : b \in {x \in chain : x.id \in ids}}
        known == {b.id : b \in chain}
    IN IF (more \cap known) \subseteq ids THEN ids
       ELSE UpTo(chain, ids \cup (more \cap known))

\* the shard blocks between the cached masterchain block and its successor:
\* those the successor's top blocks descend from, but for those the cached
\* block's top blocks descend from
Between ==
    UpTo(node_head.chain, Range(next_mc_block.shards))
    \ UpTo(node_head.chain, Range(last_mc_block.shards))

\* how often the step processes the shard block id
TimesProcessed(id) ==
    Cardinality({i \in DOMAIN next_mc_block.task_ids : next_mc_block.task_ids[i] = id})

\* The step's shard blocks are processed and the step goes on to its end
ProcessesShards == wpc = "shards" /\ wpc' = "finish"

\* every block between the two masterchain blocks is processed once in the step
OncePerStep ==
    ProcessesShards => \A id \in Between : TimesProcessed(id) = 1

\* no channel holds the same transaction twice
NoRepeatedBroadcast ==
    \A c \in ChanIds : \A i, j \in DOMAIN chan_rx[c] :
        i # j => chan_rx[c][i] # chan_rx[c][j]

\* C32: in one successful step every shard block beyond the previous edge that
\* the next masterchain block's shard blocks descend from is processed exactly
\* once, also after a split or merge and when a failed step is retried; hence no
\* transaction is sent more than once to the same channel.
C32_ExactlyOnce ==
    [][OncePerStep /\ NoRepeatedBroadcast']_vars

\* the signal task has received a termination signal
SignalReceived == sigpc # "listening"

\* the signal task took the guard and cancelled the token, and run returned Ok(())
ShutDown == sigpc = "done" /\ cancelled /\ run_result = "ok"

\* C33: once a termination signal is received, the signal task eventually takes
\* the guard and cancels the scheduler, and the command eventually returns: the
\* scheduler holds the guard only inside the election routine, which is dropped
\* at the deadline at the latest.
C33_TerminationLiveness == SignalReceived ~> ShutDown

\* the command has returned after a signal, and the last election routine, which
\* had made a guarded wallet call, was dropped at its deadline
C33_Witness ==
    /\ ShutDown
    /\ outcome = "deadline"
    /\ h_made \cap GuardedCalls # {}
====
